---- MODULE Spec2Model ----
(***************************************************************************)
(* A model of the learn-graphics renderer: the procedural geometry         *)
(* generators of geo_gen.rs (square, floor, cube, memoized UV sphere), the *)
(* render groups and the frame loop of lib.rs.                             *)
(*                                                                         *)
(* Numbers.  Lengths are f32 in the source.  The generators only halve and *)
(* negate their arguments, so a length x is represented by the integer     *)
(* 2 * x (fixed point with denominator 2) and halving is exact for         *)
(* every whole-number size.  Angles of the sphere are kept as exact        *)
(* fractions of pi (the code multiplies a step by PI / v or 2 PI / u).     *)
(* Option<u16> is a sequence of length 0 (None) or 1 (Some).               *)
(***************************************************************************)
EXTENDS Integers, Sequences, FiniteSets, TLC

\* ------------------------------------------------------------------ bounds
\* Largest subdivision count (u and v) tried by the sphere specification.
MaxSub == 4
\* Largest |size| (in whole units) handed to the square, floor and cube generators.
MaxSize == 3

\* Time is counted in ticks; TicksPerSec ticks make one second.
TicksPerSec == 2
\* Longest time between two redraws (dt), in seconds.
MaxDtSecs == 3
\* The frame loop is followed for this many redraws.
MaxFrames == 6
\* The frame loop is followed until total_duration reaches this many seconds.
MaxTotalSecs == 17
\* ------------------------------------------------------------- numbers
\* The fixed-point representation of the whole number n.
ToF(n) == 2 * n
Half(x) == x \div 2
Neg(x) == 0 - x

\* The index counter and the index list are u16.
U16Modulus == 65536

\* A Vec is a sequence; Rust indexes from 0.
VecGet(vec, n) == vec[n + 1]
VecInBounds(vec, n) == n + 1 \in 1..Len(vec)
\* vec![x; n]
RECURSIVE VecRepeat(_, _)
VecRepeat(x, n) == IF n <= 0 THEN <<>> ELSE Append(VecRepeat(x, n - 1), x)

None == <<>>
Some(x) == <<x>>
IsSome(o) == Len(o) = 1
Unwrap(o) == o[1]

\* --------------------------------------------------------------- Vertex
Vertex(position, tex_coords, normal) ==
    [position |-> position, tex_coords |-> tex_coords, normal |-> normal]

\* GeoObj::new keeps the two lists; the GPU buffers are created from them and
\* hold the same contents, so a buffer is identified with the list it was made of.
GeoObjNew(vertex_data, index_data) ==
    [vertex_data |-> vertex_data, index_data |-> index_data]

\* Mutant: the index range is taken from the vertex list.
GetIndexRangeOfVertices(obj) == <<0, Len(obj.vertex_data)>>

\* GeoObj::get_index_range: 0..index_data.len(), as <<start, end>> (end exclusive).
GetIndexRange(obj) == <<0, Len(obj.index_data)>>

\* ------------------------------------------------------ sphere generator
\* An angle k * frag where frag = num * pi / den: the pair <<k * num, den>>.
Frag(num, den) == <<num, den>>
Angle(k, frag) == <<k * frag[1], frag[2]>>

\* Mutant: a lookup grid of one slot a cell, u x v.
SphereGeneratorNewCellGrid(radius, u, v) ==
    [u |-> u, v |-> v, radius |-> radius,
     u_frag |-> Frag(2, u),
     v_frag |-> Frag(1, v),
     vertex_data |-> <<>>,
     index_data |-> <<>>,
     enqueued |-> VecRepeat(VecRepeat(None, v), u),
     index |-> 0,
     panicked |-> FALSE]

SphereGeneratorNew(radius, u, v) ==
    [u |-> u, v |-> v, radius |-> radius,
     u_frag |-> Frag(2, u),
     v_frag |-> Frag(1, v),
     vertex_data |-> <<>>,
     index_data |-> <<>>,
     enqueued |-> VecRepeat(VecRepeat(None, v + 1), u + 1),
     index |-> 0,
     panicked |-> FALSE]

\* The position is r * (sin theta cos phi, cos theta, -sin theta sin phi); it is
\* kept as the spherical coordinates it is computed from.
CreateSphereVertex(g, theta, phi) ==
    [r |-> g.radius, theta |-> theta, phi |-> phi]

\* ---- the numbers behind a vertex
\* f32 sines and cosines are computed in fixed point: TrigScale stands for 1.0,
\* positions are in units of 1 / PosScale.
TrigScale == 10000
PosScale == 1000
\* const PI, times TrigScale
PiScaled == 31416
\* sin(pi * n / d) for 0 <= n / d <= 1/2, by its Taylor series up to x^9.
SinSeries(n, d) ==
    LET x == (PiScaled * n) \div d
        x2 == (x * x) \div TrigScale
        t3 == ((x * x2) \div TrigScale) \div 6
        t5 == ((t3 * x2) \div TrigScale) \div 20
        t7 == ((t5 * x2) \div TrigScale) \div 42
        t9 == ((t7 * x2) \div TrigScale) \div 72
    IN  x - t3 + t5 - t7 + t9
\* f32::sin of the angle pi * a[1] / a[2], the angle taken modulo 2 pi.
Sin(a) ==
    LET d == a[2]
        n == a[1] % (2 * d)
    IN  IF 2 * n <= d THEN SinSeries(n, d)
        ELSE IF n <= d THEN SinSeries(d - n, d)
        ELSE IF 2 * n <= 3 * d THEN 0 - SinSeries(n - d, d)
        ELSE 0 - SinSeries(2 * d - n, d)
\* f32::cos: the sine a quarter turn on.
Cos(a) == Sin(<<2 * a[1] + a[2], 2 * a[2]>>)
\* r * t for a radius r (fixed point) and a factor t (of TrigScale), in
\* position units.
Scaled(r, t) == (r * t * PosScale) \div (ToF(1) * TrigScale)
\* A position with y = r sin theta.
SpherePositionSineY(vertex) ==
    <<Scaled(vertex.r, (Sin(vertex.theta) * Cos(vertex.phi)) \div TrigScale),
      Scaled(vertex.r, Sin(vertex.theta)),
      0 - Scaled(vertex.r, (Sin(vertex.theta) * Sin(vertex.phi)) \div TrigScale)>>
\* create_sphere_vertex: position = [r sin theta cos phi, r cos theta,
\* -r sin theta sin phi].
SpherePosition(vertex) ==
    <<Scaled(vertex.r, (Sin(vertex.theta) * Cos(vertex.phi)) \div TrigScale),
      Scaled(vertex.r, Cos(vertex.theta)),
      0 - Scaled(vertex.r, (Sin(vertex.theta) * Sin(vertex.phi)) \div TrigScale)>>

\* self.index += 1 on a u16: wraps in a build without overflow checks, panics
\* in a build with them.
\* Mutant: a counter wide enough never to wrap.
IndexIncrNoWrap(index) == index + 1
IndexIncrWraps(index) == (index + 1) % U16Modulus
IndexIncrPanics(index) == index + 1 >= U16Modulus

\* The slot get_index(v, u) reads and writes: enqueued[u][v].
SlotInBounds(g, v, u) == VecInBounds(g.enqueued, u) /\ VecInBounds(VecGet(g.enqueued, u), v)
\* enqueued[u][v]
Slot(g, v, u) == VecGet(VecGet(g.enqueued, u), v)

\* Mutant: the counter is read after the increment.
GetIndexValuePostIncr(g, v, u) ==
    IF IsSome(Slot(g, v, u)) THEN Unwrap(Slot(g, v, u)) ELSE g.index + 1

\* The value get_index(v, u) returns.
GetIndexValue(g, v, u) ==
    IF IsSome(Slot(g, v, u)) THEN Unwrap(Slot(g, v, u)) ELSE g.index

\* Mutant: the new index is not recorded in the lookup grid.
GetIndexStateNoMemo(g, v, u, checks) ==
    IF IsSome(Slot(g, v, u))
    THEN g
    ELSE [g EXCEPT !.vertex_data = Append(@, CreateSphereVertex(g, Angle(v, g.v_frag),
                                                                Angle(u, g.u_frag))),
                   !.index = IndexIncrWraps(g.index)]

\* Mutant: the counter advances by two.
GetIndexStateSkipping(g, v, u, checks) ==
    IF IsSome(Slot(g, v, u))
    THEN g
    ELSE [g EXCEPT !.vertex_data = Append(@, CreateSphereVertex(g, Angle(v, g.v_frag),
                                                                Angle(u, g.u_frag))),
                   !.enqueued[u + 1][v + 1] = Some(g.index),
                   !.index = IndexIncrWraps(IndexIncrWraps(g.index))]

\* The generator after get_index(v, u), given whether the build checks overflow.
GetIndexState(g, v, u, checks) ==
    IF IsSome(Slot(g, v, u))
    THEN g
    ELSE LET theta == Angle(v, g.v_frag)
             phi == Angle(u, g.u_frag)
             old == g.index
         IN  [g EXCEPT !.vertex_data = Append(@, CreateSphereVertex(g, theta, phi)),
                       !.enqueued[u + 1][v + 1] = Some(old),
                       !.index = IF checks /\ IndexIncrPanics(old) THEN old
                                 ELSE IndexIncrWraps(old),
                       !.panicked = checks /\ IndexIncrPanics(old)]

\* The four corners of cell (i, j) in the order build_sphere requests them,
\* each as <<v, u>>, the argument order of get_index.
CellCorners(i, j) == << <<i, j>>, <<i + 1, j>>, <<i + 1, j + 1>>, <<i, j + 1>> >>

\* The two triangles split along the other diagonal, as create_square does.
CellIndicesOtherDiagonal(p) == <<p[1], p[2], p[3], p[3], p[4], p[1]>>
\* index_data.extend([p0, p1, p3, p3, p1, p2]) with p = <<p0, p1, p2, p3>>.
CellIndices(p) == <<p[1], p[2], p[4], p[4], p[2], p[3]>>

\* Mutant: longitude step u is welded to step 0.
GetIndexCallWelded(g, c, checks) ==
    IF g.panicked THEN g
    ELSE IF ~SlotInBounds(g, c[1], c[2]) THEN [g EXCEPT !.panicked = TRUE]
    ELSE GetIndexState(g, c[1], c[2] % g.u, checks)

\* One get_index call of build_sphere; nothing more runs once the thread panicked.
\* Indexing enqueued outside the grid panics (Vec bounds check).
GetIndexCall(g, c, checks) ==
    IF g.panicked THEN g
    ELSE IF ~SlotInBounds(g, c[1], c[2]) THEN [g EXCEPT !.panicked = TRUE]
    ELSE GetIndexState(g, c[1], c[2], checks)

GetIndexResult(g, c) ==
    IF g.panicked \/ ~SlotInBounds(g, c[1], c[2]) THEN 0
    ELSE GetIndexValue(g, c[1], c[2])

\* The body of build_sphere's inner loop for cell (i, j); a panic in one call
\* ends the run there.
BuildCell(g, i, j, checks) ==
    LET c == CellCorners(i, j)
        p0 == GetIndexResult(g, c[1])
        g1 == GetIndexCall(g, c[1], checks)
        p1 == GetIndexResult(g1, c[2])
        g2 == GetIndexCall(g1, c[2], checks)
        p2 == GetIndexResult(g2, c[3])
        g3 == GetIndexCall(g2, c[3], checks)
        p3 == GetIndexResult(g3, c[4])
        g4 == GetIndexCall(g3, c[4], checks)
    IN  IF g1.panicked THEN g1
        ELSE IF g2.panicked THEN g2
        ELSE IF g3.panicked THEN g3
        ELSE IF g4.panicked THEN g4
        ELSE [g4 EXCEPT !.index_data = @ \o CellIndices(<<p0, p1, p2, p3>>)]

\* build_sphere: for i in 0..v { for j in 0..u { ... } }.  The cells are visited
\* in the order k = i * u + j; BuildCells(g, lo, hi, checks) runs the loop body
\* for the cells lo..hi-1 in that order (the range is halved only to keep the
\* evaluation shallow, the order of the cells is the loops' order).
RECURSIVE BuildCells(_, _, _, _)
BuildCells(g, lo, hi, checks) ==
    IF hi <= lo \/ g.panicked THEN g
    ELSE IF hi = lo + 1 THEN BuildCell(g, lo \div g.u, lo % g.u, checks)
    ELSE LET mid == (lo + hi) \div 2
             first == BuildCells(g, lo, mid, checks)
         IN  IF first.panicked THEN first
             ELSE BuildCells(first, mid, hi, checks)

BuildSphere(g, checks) == BuildCells(g, 0, g.u * g.v, checks)

\* create_obj: the generator's two lists become the GeoObj.
CreateObj(g) == GeoObjNew(g.vertex_data, g.index_data)

\* create_sphere(radius, u, v); a panic leaves no object (None).
CreateSphere(radius, u, v, checks) ==
    LET g == BuildSphere(SphereGeneratorNew(radius, u, v), checks)
    IN  IF g.panicked THEN None ELSE Some(CreateObj(g))

\* ------------------------------------------------- square, floor, cube
\* Mutant: width and height are swapped.
CreateSquareSwapped(height, width) ==
    LET hw == Half(height)
        hh == Half(width)
    IN  [vertex_data |-> <<
            Vertex(<<hw, hh, 0>>, <<ToF(1), ToF(1)>>, <<0, 0, ToF(1)>>),
            Vertex(<<Neg(hw), hh, 0>>, <<0, ToF(1)>>, <<0, 0, ToF(1)>>),
            Vertex(<<Neg(hw), Neg(hh), 0>>, <<0, 0>>, <<0, 0, ToF(1)>>),
            Vertex(<<hw, Neg(hh), 0>>, <<ToF(1), 0>>, <<0, 0, ToF(1)>>) >>,
         index_data |-> <<0, 1, 2, 2, 3, 0>>]

\* Mutant: the second triangle closes on a fifth vertex.
SquareIndexDataFifthVertex == <<0, 1, 2, 2, 3, 4>>

SquareIndexData == <<0, 1, 2, 2, 3, 0>>

CreateSquare(height, width) ==
    LET half_width == Half(width)
        half_height == Half(height)
        vertex_data == <<
            Vertex(<<half_width, half_height, 0>>, <<ToF(1), ToF(1)>>, <<0, 0, ToF(1)>>),
            Vertex(<<Neg(half_width), half_height, 0>>, <<0, ToF(1)>>, <<0, 0, ToF(1)>>),
            Vertex(<<Neg(half_width), Neg(half_height), 0>>, <<0, 0>>, <<0, 0, ToF(1)>>),
            Vertex(<<half_width, Neg(half_height), 0>>, <<ToF(1), 0>>, <<0, 0, ToF(1)>>) >>
    IN  GeoObjNew(vertex_data, SquareIndexData)

\* let mul = 100.0
FloorMul == 100

\* A floor whose texture is tiled along u only.
CreateFloorTiledAlongU(height, width) ==
    LET half_width == Half(width)
        half_height == Half(height)
        mul == ToF(FloorMul)
        vertex_data == <<
            Vertex(<<half_width, half_height, 0>>, <<mul, ToF(1)>>, <<0, 0, ToF(1)>>),
            Vertex(<<Neg(half_width), half_height, 0>>, <<0, ToF(1)>>, <<0, 0, ToF(1)>>),
            Vertex(<<Neg(half_width), Neg(half_height), 0>>, <<0, 0>>, <<0, 0, ToF(1)>>),
            Vertex(<<half_width, Neg(half_height), 0>>, <<mul, 0>>, <<0, 0, ToF(1)>>) >>
    IN  GeoObjNew(vertex_data, SquareIndexData)
\* create_floor(height, width)
CreateFloor(height, width) ==
    LET half_width == Half(width)
        half_height == Half(height)
        mul == ToF(FloorMul)
        vertex_data == <<
            Vertex(<<half_width, half_height, 0>>, <<mul, mul>>, <<0, 0, ToF(1)>>),
            Vertex(<<Neg(half_width), half_height, 0>>, <<0, mul>>, <<0, 0, ToF(1)>>),
            Vertex(<<Neg(half_width), Neg(half_height), 0>>, <<0, 0>>, <<0, 0, ToF(1)>>),
            Vertex(<<half_width, Neg(half_height), 0>>, <<mul, 0>>, <<0, 0, ToF(1)>>) >>
    IN  GeoObjNew(vertex_data, SquareIndexData)

\* Mutant: the second triangle of the top face takes corner 4 for corner 7.
CubeIndexDataWrongCorner ==
    << 0, 1, 2,  2, 3, 0,
       4, 7, 6,  6, 5, 4,
       3, 2, 6,  6, 4, 3,
       0, 4, 5,  5, 1, 0,
       0, 3, 7,  7, 4, 0,
       1, 5, 6,  6, 2, 1 >>

\* Mutant: the back face is listed in the same rotation as the front face.
CubeIndexDataBackFlipped ==
    << 0, 1, 2,  2, 3, 0,
       4, 5, 6,  6, 7, 4,
       3, 2, 6,  6, 7, 3,
       0, 4, 5,  5, 1, 0,
       0, 3, 7,  7, 4, 0,
       1, 5, 6,  6, 2, 1 >>

CubeIndexData ==
    << 0, 1, 2,  2, 3, 0,     \* Front
       4, 7, 6,  6, 5, 4,     \* Back
       3, 2, 6,  6, 7, 3,     \* Top
       0, 4, 5,  5, 1, 0,     \* Bottom
       0, 3, 7,  7, 4, 0,     \* Left
       1, 5, 6,  6, 2, 1 >>   \* Right

CreateCube(size) ==
    LET half == Half(size)
        n == <<0, 0, ToF(1)>>
        t == <<0, 0>>
        vertex_data == <<
            Vertex(<<Neg(half), Neg(half), half>>, t, n),
            Vertex(<<half, Neg(half), half>>, t, n),
            Vertex(<<half, half, half>>, t, n),
            Vertex(<<Neg(half), half, half>>, t, n),
            Vertex(<<Neg(half), Neg(half), Neg(half)>>, t, n),
            Vertex(<<half, Neg(half), Neg(half)>>, t, n),
            Vertex(<<half, half, Neg(half)>>, t, n),
            Vertex(<<Neg(half), half, Neg(half)>>, t, n) >>
    IN  GeoObjNew(vertex_data, CubeIndexData)

\* ========================================================== render pass
\* A GPU object (pipeline, bind group, buffer) is named by its kind, the render
\* group (or "" for State) that owns it and a number (light or mesh number).
Handle(kind, of, n) == [kind |-> kind, of |-> of, n |-> n]
NoHandle == Handle("none", "", 0)
NoRange == <<0, 0>>

\* wgpu::RenderPass as the encoder sees it: what is bound, and the commands
\* recorded so far.  Each command remembers the render group whose render call
\* recorded it ("" for State::render itself) and, for a draw, what was bound;
\* calls lists the render groups whose render was invoked on the pass and flags
\* the shadow flag each of these invocations was given.
Cmd(op, by, slot, arg, range, base_vertex, instances, bound) ==
    [op |-> op, by |-> by, slot |-> slot, arg |-> arg, range |-> range,
     base_vertex |-> base_vertex, instances |-> instances, bound |-> bound]
NoBound == [pipeline |-> NoHandle, bind_groups |-> <<>>, vertex_buffers |-> <<>>,
            index_buffer |-> NoHandle]
Bound(rp) == [pipeline |-> rp.pipeline, bind_groups |-> rp.bind_groups,
              vertex_buffers |-> rp.vertex_buffers, index_buffer |-> rp.index_buffer]

\* encoder.begin_render_pass: nothing is bound in a new pass.
BeginRenderPass ==
    [pipeline |-> NoHandle,
     bind_groups |-> VecRepeat(NoHandle, 4),
     vertex_buffers |-> VecRepeat(NoHandle, 2),
     index_buffer |-> NoHandle,
     commands |-> <<>>,
     calls |-> <<>>,
     flags |-> <<>>,
     panicked |-> FALSE]

SetPipeline(rp, by, pipeline) ==
    [rp EXCEPT !.pipeline = pipeline,
               !.commands = Append(@, Cmd("set_pipeline", by, 0, pipeline, NoRange, 0,
                                          NoRange, NoBound))]
SetBindGroup(rp, by, slot, bind_group) ==
    [rp EXCEPT !.bind_groups[slot + 1] = bind_group,
               !.commands = Append(@, Cmd("set_bind_group", by, slot, bind_group, NoRange,
                                          0, NoRange, NoBound))]
SetVertexBuffer(rp, by, slot, buffer) ==
    [rp EXCEPT !.vertex_buffers[slot + 1] = buffer,
               !.commands = Append(@, Cmd("set_vertex_buffer", by, slot, buffer, NoRange,
                                          0, NoRange, NoBound))]
SetIndexBuffer(rp, by, buffer) ==
    [rp EXCEPT !.index_buffer = buffer,
               !.commands = Append(@, Cmd("set_index_buffer", by, 0, buffer, NoRange, 0,
                                          NoRange, NoBound))]
DrawIndexed(rp, by, indices, base_vertex, instances) ==
    [rp EXCEPT !.commands = Append(@, Cmd("draw_indexed", by, 0, NoHandle, indices,
                                          base_vertex, instances, Bound(rp)))]
Draw(rp, by, vertices, instances) ==
    [rp EXCEPT !.commands = Append(@, Cmd("draw", by, 0, NoHandle, vertices, 0,
                                          instances, Bound(rp)))]

\* ========================================================= render groups
\* Instances::get_instance_range: 0..instance_transforms.len().
GetInstanceRange(instances) == <<0, Len(instances.instance_transforms)>>

\* impl RenderGroup for GeoRenderGroup (geo_gen.rs): id names the group, grp is
\* its value [kind, obj, instances].
GeoRender(rp, id, grp) ==
    LET r1 == SetPipeline(rp, id, Handle("render_pipeline", id, 0))
        r2 == SetBindGroup(r1, id, 2, Handle("texture_bind_group", id, 0))
        r3 == SetVertexBuffer(r2, id, 0, Handle("vertex_buffer", id, 0))
        r4 == SetVertexBuffer(r3, id, 1, Handle("instance_buffer", id, 0))
        r5 == SetIndexBuffer(r4, id, Handle("index_buffer", id, 0))
    IN  DrawIndexed(r5, id, GetIndexRange(grp.obj), 0, GetInstanceRange(grp.instances))

\* The loop of LightRenderGroup::render over light_render_triplets, lights
\* i..n-1 (i from 0); a light whose color[3] is 0 is passed over.
RECURSIVE LightRenderLoop(_, _, _, _)
LightRenderLoop(rp, id, grp, i) ==
    IF i >= Len(grp.light_render_triplets) THEN rp
    ELSE IF VecGet(grp.light_uniforms, i).color[4] = 0
         THEN LightRenderLoop(rp, id, grp, i + 1)
         ELSE LET obj == VecGet(grp.light_render_triplets, i)
                  r1 == SetBindGroup(rp, id, 1, Handle("bind_group_per_light", id, i))
                  r2 == SetVertexBuffer(r1, id, 0, Handle("light_vertex_buffer", id, i))
                  r3 == SetIndexBuffer(r2, id, Handle("light_index_buffer", id, i))
                  r4 == DrawIndexed(r3, id, GetIndexRange(obj), 0, <<0, 1>>)
              IN  LightRenderLoop(r4, id, grp, i + 1)

\* A light group that binds the all-lights bind group before it draws.
LightRenderGroupBindFirst(rp, id, grp, shadow_pass) ==
    IF shadow_pass THEN rp
    ELSE LET r1 == SetPipeline(rp, id, Handle("light_render_pipeline", id, 0))
             r2 == SetBindGroup(r1, id, 1, Handle("light_bind_group", id, 0))
         IN  LightRenderLoop(r2, id, grp, 0)
\* A light group that leaves the last light's own bind group at slot 1.
LightRenderNoGroupBind(rp, id, grp, shadow_pass) ==
    IF shadow_pass THEN rp
    ELSE LightRenderLoop(SetPipeline(rp, id, Handle("light_render_pipeline", id, 0)),
                         id, grp, 0)
\* A light group that draws its lights whatever the flag.
LightRenderAnyPass(rp, id, grp, shadow_pass) ==
    LET r1 == SetPipeline(rp, id, Handle("light_render_pipeline", id, 0))
        r2 == LightRenderLoop(r1, id, grp, 0)
    IN  SetBindGroup(r2, id, 1, Handle("light_bind_group", id, 0))
\* impl RenderGroup for LightRenderGroup (light.rs).
LightRender(rp, id, grp, shadow_pass) ==
    IF shadow_pass THEN rp
    ELSE LET r1 == SetPipeline(rp, id, Handle("light_render_pipeline", id, 0))
             r2 == LightRenderLoop(r1, id, grp, 0)
         IN  SetBindGroup(r2, id, 1, Handle("light_bind_group", id, 0))

\* impl RenderGroup for SkyboxRenderGroup (skybox.rs).
SkyboxRender(rp, id, grp, shadow_pass) ==
    IF shadow_pass THEN rp
    ELSE LET r1 == SetBindGroup(rp, id, 1, Handle("bind_group", id, 0))
             r2 == SetPipeline(r1, id, Handle("sky_pipeline", id, 0))
         IN  Draw(r2, id, <<0, 3>>, <<0, 1>>)

\* Mutant: every mesh is drawn with the first material.
DrawMeshInstancedFirstMaterial(rp, id, grp, m, instances) ==
    LET mesh == VecGet(grp.model.meshes, m)
        r1 == SetVertexBuffer(rp, id, 1, Handle("mesh_vertex_buffer", id, m))
        r2 == SetIndexBuffer(r1, id, Handle("mesh_index_buffer", id, m))
        r3 == SetBindGroup(r2, id, 2, Handle("material_bind_group", id, 0))
        r4 == SetBindGroup(r3, id, 3, Handle("material_uniform_bind_group", id, 0))
    IN  DrawIndexed(r4, id, <<0, mesh.num_elements>>, 0, instances)

\* ModelRenderGroup::draw_mesh_instanced for mesh number m (from 0).
DrawMeshInstanced(rp, id, grp, m, instances) ==
    LET mesh == VecGet(grp.model.meshes, m)
        r1 == SetVertexBuffer(rp, id, 1, Handle("mesh_vertex_buffer", id, m))
        r2 == SetIndexBuffer(r1, id, Handle("mesh_index_buffer", id, m))
        r3 == SetBindGroup(r2, id, 2, Handle("material_bind_group", id, mesh.material))
        r4 == SetBindGroup(r3, id, 3, Handle("material_uniform_bind_group", id, mesh.material))
    IN  DrawIndexed(r4, id, <<0, mesh.num_elements>>, 0, instances)

\* model.materials[n] is inside the Vec (the materials are kept as their
\* number).
MaterialInBounds(model, n) == n + 1 \in 1..model.materials

\* for mesh in &self.model.meshes, meshes m..n-1; indexing materials outside the
\* Vec panics and ends the loop.
RECURSIVE ModelRenderLoop(_, _, _, _)
ModelRenderLoop(rp, id, grp, m) ==
    IF m >= Len(grp.model.meshes) THEN rp
    ELSE IF ~MaterialInBounds(grp.model, VecGet(grp.model.meshes, m).material)
    THEN [rp EXCEPT !.panicked = TRUE]
    ELSE ModelRenderLoop(
             DrawMeshInstanced(rp, id, grp, m, GetInstanceRange(grp.instances)),
             id, grp, m + 1)

\* impl RenderGroup for ModelRenderGroup (model.rs).
ModelRender(rp, id, grp) ==
    LET r1 == SetPipeline(rp, id, Handle("render_pipeline", id, 0))
        r2 == SetVertexBuffer(r1, id, 0, Handle("instance_buffer", id, 0))
    IN  ModelRenderLoop(r2, id, grp, 0)

\* GeoRenderGroup::render with the shadow flag set.  geo_gen.rs here implements
\* render without the flag; with it the group skips its color state (pipeline,
\* texture) and emits its geometry: the same buffers at the same slots.
GeoRenderDepthOnly(rp, id, grp) ==
    LET r3 == SetVertexBuffer(rp, id, 0, Handle("vertex_buffer", id, 0))
        r4 == SetVertexBuffer(r3, id, 1, Handle("instance_buffer", id, 0))
        r5 == SetIndexBuffer(r4, id, Handle("index_buffer", id, 0))
    IN  DrawIndexed(r5, id, GetIndexRange(grp.obj), 0, GetInstanceRange(grp.instances))

\* ModelRenderGroup::render with the shadow flag set, likewise: the meshes are
\* drawn without pipeline and material bind groups.
RECURSIVE ModelDepthOnlyLoop(_, _, _, _)
ModelDepthOnlyLoop(rp, id, grp, m) ==
    IF m >= Len(grp.model.meshes) THEN rp
    ELSE LET mesh == VecGet(grp.model.meshes, m)
             r1 == SetVertexBuffer(rp, id, 1, Handle("mesh_vertex_buffer", id, m))
             r2 == SetIndexBuffer(r1, id, Handle("mesh_index_buffer", id, m))
             r3 == DrawIndexed(r2, id, <<0, mesh.num_elements>>, 0,
                               GetInstanceRange(grp.instances))
         IN  ModelDepthOnlyLoop(r3, id, grp, m + 1)
ModelRenderDepthOnly(rp, id, grp) ==
    ModelDepthOnlyLoop(SetVertexBuffer(rp, id, 0, Handle("instance_buffer", id, 0)),
                       id, grp, 0)

\* x.render(&mut render_pass, shadow_pass): dynamic dispatch on the group's type.
RenderGroupRender(rp, id, grp, shadow_pass) ==
    CASE grp.kind = "geo" -> IF shadow_pass THEN GeoRenderDepthOnly(rp, id, grp)
                             ELSE GeoRender(rp, id, grp)
      [] grp.kind = "light" -> LightRender(rp, id, grp, shadow_pass)
      [] grp.kind = "skybox" -> SkyboxRender(rp, id, grp, shadow_pass)
      [] grp.kind = "model" -> IF shadow_pass THEN ModelRenderDepthOnly(rp, id, grp)
                               ELSE ModelRender(rp, id, grp)

\* Mutant: the skybox is left out of the frame.
RECURSIVE RenderAllButSkybox(_, _, _, _, _)
RenderAllButSkybox(rp, ids, grps, n, shadow_pass) ==
    IF n > Len(ids) THEN rp
    ELSE IF grps[ids[n]].kind = "skybox"
         THEN RenderAllButSkybox(rp, ids, grps, n + 1, shadow_pass)
         ELSE RenderAllButSkybox(
                  RenderGroupRender([rp EXCEPT !.calls = Append(@, ids[n]),
                                               !.flags = Append(@, shadow_pass)],
                                    ids[n], grps[ids[n]], shadow_pass),
                  ids, grps, n + 1, shadow_pass)

\* refs.iter().for_each(|x| x.render(&mut render_pass)), groups n.. of the list.
RECURSIVE RenderAll(_, _, _, _, _)
RenderAll(rp, ids, grps, n, shadow_pass) ==
    IF n > Len(ids) THEN rp
    ELSE RenderAll(RenderGroupRender([rp EXCEPT !.calls = Append(@, ids[n]),
                                                !.flags = Append(@, shadow_pass)],
                                     ids[n], grps[ids[n]], shadow_pass),
                   ids, grps, n + 1, shadow_pass)

\* ================================================================ state
VARIABLES
    \* build profile: TRUE when integer overflow panics (debug), FALSE when it wraps
    overflow_checks,
    \* --- a run of create_sphere, one get_index call at a time
    sph_pc,        \* "idle", "loop", "done" or "panicked"
    gen,           \* the SphereGenerator
    sph_i, sph_j,  \* the loop counters of build_sphere
    sph_p,         \* the indices p0.. returned so far for the current cell
    sph_obj,       \* Some(GeoObj) once create_obj has run
    \* --- the last call of create_square / create_floor / create_cube
    shape,         \* [kind, args, obj]
    \* --- the running program (lib.rs)
    state,         \* the State struct
    control_flow,  \* "Init" before State::new, then "Poll", "Exit" or "Panicked"
    frame,         \* what the last RedrawRequested did: [dt, result, steps, commands, calls]
    \* --- a shadow pass over a scene (shadow.rs)
    scene,         \* [refs, lights]: the render groups handed over, the number of lights
    passes,        \* the render passes ShadowPass::render_pass recorded, in order
    \* --- InstanceTransform::to_raw (world_space.rs)
    instance,      \* None, or Some([transform, raw]) after a call of to_raw
    \* --- LightRenderGroup::update_light (light.rs)
    light_group,   \* [light_uniforms, buffer, buffers]: the uniforms and the GPU copies
    light_call,    \* the last call of update_light: [dt, camera], camera.view as
                   \* [position, dir]
    \* --- the index counter of a SphereGenerator (geo_gen.rs)
    counter,       \* [pc, u, v, index, pushed, given, aliased, panicked]
    \* --- cal_cutoff (light.rs)
    cutoff,        \* None, or Some([inner, outer, result]) after a call
    \* --- the event the event loop of run() handled last (lib.rs)
    event          \* [event, input, handled, pressed]

sphere_vars == <<sph_pc, gen, sph_i, sph_j, sph_p, sph_obj>>
prog_vars == <<state, control_flow, frame>>
scene_vars == <<scene, passes>>
instance_vars == <<instance>>
light_vars == <<light_group, light_call>>
aux_vars == <<counter, cutoff, event>>
vars == <<overflow_checks, sphere_vars, shape, prog_vars, scene_vars, instance_vars,
          light_vars, aux_vars>>

\* let obj = geo_gen::create_sphere(10.0, 3, 2, &device)
SphereRadius == 10

NoGen == SphereGeneratorNew(0, 0, 0)
NoShape == [kind |-> "none", args |-> <<>>, obj |-> GeoObjNew(<<>>, <<>>)]

NoFrame == [dt |-> 0, result |-> "none", steps |-> <<>>, commands |-> <<>>, calls |-> <<>>]
NoState == [size |-> <<0, 0>>]
ProgramNotStarted ==
    /\ state = NoState
    /\ control_flow = "Init"
    /\ frame = NoFrame

NoScene == [refs |-> <<>>, lights |-> 0]
\* passes: where render_pass is (idle, returned, panicked) and what it recorded.
NoPasses == [pc |-> "idle", list |-> <<>>]
SceneIdle ==
    /\ scene = NoScene
    /\ passes = NoPasses
InstanceIdle == instance = None
NoLightCall == [dt |-> 0, camera |-> [position |-> <<0, 0, 0>>, dir |-> <<0, 0, 0>>]]
NoLightGroup == [light_uniforms |-> <<>>, buffer |-> <<>>, buffers |-> <<>>]
LightIdle ==
    /\ light_group = NoLightGroup
    /\ light_call = NoLightCall
NoCounter == [pc |-> "idle", u |-> 0, v |-> 0, index |-> 0, pushed |-> 0,
              given |-> <<0, 0 - 1>>, aliased |-> FALSE, panicked |-> FALSE]
\* A window or device event: its kind and what the match arms look at.
Event(kind, key, element_state, button, size) ==
    [kind |-> kind, key |-> key, state |-> element_state, button |-> button,
     size |-> size]
NoEvent == [event |-> Event("none", "", "", "", <<0, 0>>), input |-> FALSE,
            handled |-> "none", pressed |-> FALSE]
AuxIdle ==
    /\ counter = NoCounter
    /\ cutoff = None
    /\ event = NoEvent

SphereIdle ==
    /\ sph_pc = "idle"
    /\ gen = NoGen
    /\ sph_i = 0 /\ sph_j = 0
    /\ sph_p = <<>>
    /\ sph_obj = None

\* ------------------------------------------- create_sphere, step by step
\* The radii spheres are made with: a unit sphere, and the radius State uses.
SphereRadii == {1, SphereRadius}
\* SphereGenerator::new(radius, u, v), then build_sphere starts.
SphereNew ==
    /\ sph_pc = "idle"
    /\ \E u \in 0..MaxSub, v \in 0..MaxSub, radius \in SphereRadii :
          gen' = SphereGeneratorNew(ToF(radius), u, v)
    /\ sph_pc' = "loop"
    /\ sph_i' = 0 /\ sph_j' = 0 /\ sph_p' = <<>>
    /\ UNCHANGED <<sph_obj, overflow_checks, shape, prog_vars, scene_vars, instance_vars, light_vars, aux_vars>>

\* One of the four get_index calls of the current cell.
SphereGetIndex ==
    /\ sph_pc = "loop"
    /\ sph_i < gen.v /\ sph_j < gen.u
    /\ Len(sph_p) < 4
    /\ LET c == CellCorners(sph_i, sph_j)[Len(sph_p) + 1]
           g == GetIndexCall(gen, c, overflow_checks)
       IN  /\ gen' = g
           /\ sph_p' = Append(sph_p, GetIndexResult(gen, c))
           /\ sph_pc' = IF g.panicked THEN "panicked" ELSE "loop"
    /\ UNCHANGED <<sph_i, sph_j, sph_obj, overflow_checks, shape, prog_vars, scene_vars, instance_vars, light_vars, aux_vars>>

\* index_data.extend([p0, p1, p3, p3, p1, p2]) and the loop counters advance.
SphereExtend ==
    /\ sph_pc = "loop"
    /\ Len(sph_p) = 4
    /\ gen' = [gen EXCEPT !.index_data = @ \o CellIndices(sph_p)]
    /\ sph_p' = <<>>
    /\ IF sph_j + 1 < gen.u
       THEN sph_j' = sph_j + 1 /\ sph_i' = sph_i
       ELSE sph_j' = 0 /\ sph_i' = sph_i + 1
    /\ UNCHANGED <<sph_pc, sph_obj, overflow_checks, shape, prog_vars, scene_vars, instance_vars, light_vars, aux_vars>>

\* Both loops are over: create_obj.
SphereCreateObj ==
    /\ sph_pc = "loop"
    /\ sph_i >= gen.v \/ gen.u = 0
    /\ sph_p = <<>>
    /\ sph_obj' = Some(CreateObj(gen))
    /\ sph_pc' = "done"
    /\ UNCHANGED <<gen, sph_i, sph_j, sph_p, overflow_checks, shape, prog_vars, scene_vars, instance_vars, light_vars, aux_vars>>

\* The caller drops the result; another sphere may be requested.
SphereReset ==
    /\ sph_pc \in {"done", "panicked"}
    /\ sph_pc' = "idle"
    /\ gen' = NoGen
    /\ sph_i' = 0 /\ sph_j' = 0 /\ sph_p' = <<>>
    /\ sph_obj' = None
    /\ UNCHANGED <<overflow_checks, shape, prog_vars, scene_vars, instance_vars, light_vars, aux_vars>>

InitSphere ==
    /\ overflow_checks \in BOOLEAN
    /\ SphereIdle
    /\ shape = NoShape
    /\ ProgramNotStarted
    /\ SceneIdle
    /\ InstanceIdle
    /\ LightIdle
    /\ AuxIdle

NextSphere ==
    \/ SphereNew
    \/ SphereGetIndex
    \/ SphereExtend
    \/ SphereCreateObj
    \/ SphereReset

SpecSphere == InitSphere /\ [][NextSphere]_vars

\* ---------------------------------- create_square / create_floor / create_cube
Sizes == (0 - MaxSize)..MaxSize

\* The arguments State::new passes: create_square(26.0, 40.0),
\* create_floor(2800.0, 2800.0), create_cube(10.0).
SquareHeight == 26
SquareWidth == 40
FloorSide == 2800
LightCubeSize == 10

CallCreateSquare ==
    /\ \E a \in (Sizes \X Sizes) \cup {<<SquareHeight, SquareWidth>>} :
          shape' = [kind |-> "square", args |-> a,
                    obj |-> CreateSquare(ToF(a[1]), ToF(a[2]))]
    /\ UNCHANGED <<overflow_checks, sphere_vars, prog_vars, scene_vars, instance_vars, light_vars, aux_vars>>

CallCreateFloor ==
    /\ \E a \in (Sizes \X Sizes) \cup {<<FloorSide, FloorSide>>} :
          shape' = [kind |-> "floor", args |-> a,
                    obj |-> CreateFloor(ToF(a[1]), ToF(a[2]))]
    /\ UNCHANGED <<overflow_checks, sphere_vars, prog_vars, scene_vars, instance_vars, light_vars, aux_vars>>

CallCreateCube ==
    /\ \E size \in Sizes \cup {LightCubeSize} :
          shape' = [kind |-> "cube", args |-> <<size>>,
                    obj |-> CreateCube(ToF(size))]
    /\ UNCHANGED <<overflow_checks, sphere_vars, prog_vars, scene_vars, instance_vars, light_vars, aux_vars>>

InitShapes ==
    /\ overflow_checks \in BOOLEAN
    /\ SphereIdle
    /\ shape = NoShape
    /\ ProgramNotStarted
    /\ SceneIdle
    /\ InstanceIdle
    /\ LightIdle
    /\ AuxIdle

NextShapes ==
    \/ CallCreateSquare
    \/ CallCreateFloor
    \/ CallCreateCube

SpecShapes == InitShapes /\ [][NextShapes]_vars

\* ======================================================= the program
\* Instances::new: the transforms are kept (their buffer is made from them).
InstancesNew(instance_transforms) == [instance_transforms |-> instance_transforms]
\* InstanceTransform { position, rotation }: position in fixed point, the
\* rotation by the name of its constructor.
InstanceTransform(position, rotation) == [position |-> position, rotation |-> rotation]

\* A model as resources::load_model hands it over: n meshes and k materials,
\* mesh m (from 0) has 3 * (m + 1) indices and uses material m mod k.
RECURSIVE MeshList(_, _)
MeshList(n, k) ==
    IF n = 0 THEN <<>>
    ELSE Append(MeshList(n - 1, k), [num_elements |-> 3 * n, material |-> (n - 1) % k])
MakeModel(n, k) == [meshes |-> MeshList(n, k), materials |-> k]
Models == {MakeModel(1, 1), MakeModel(2, 2)}
\* The smallest of them.
OneMeshModel == MakeModel(1, 1)

\* State::new: the subdivision counts of the two spheres made at startup.
LightSphereSub == 20
StartSphereU == 3
StartSphereV == 2

\* const FLOOR_HEIGHT: f32 = -10.0
FloorHeight == 0 - 10

GeoRenderGroupNew(obj, instances) == [kind |-> "geo", obj |-> obj, instances |-> instances]
ModelRenderGroupNew(model, instances) ==
    [kind |-> "model", model |-> model, instances |-> instances]
\* window.inner_size() at startup
StartSize == <<1, 1>>
\* SurfaceConfiguration of State::new: the size of the window.
StartConfig == [width |-> StartSize[1], height |-> StartSize[2]]

\* ---- light uniforms
\* A vector of a light: v turned about the world Y axis by turn, the angle in
\* degrees / TicksPerSec (the rotations of update_light add up in it).
Turned(v, turn) == [v |-> v, turn |-> turn]
FullTurn == 360 * TicksPerSec
\* The numbers of a uniform that are no whole multiples of 1/2 are kept as
\* written in the source.
\* impl Default for LightUniform
LightUniformDefault ==
    [position |-> Turned(<<ToF(40), ToF(20), ToF(0 - 40)>>, 0),
     direction |-> Turned(<<0, 0, 0>>, 0),
     color |-> <<ToF(1), ToF(1), ToF(1), 0>>,
     diffuse_strength |-> "1.0",
     ambient_strength |-> "0.1",
     specular_strength |-> "0.3",
     point_clq |-> <<"1.", "0.045", "0.0075", "1.">>,
     cutoff_inner_outer_eps |-> <<"0.", "0.", "0.", "0.">>,
     view_proj |-> "identity"]
\* ---- f32 cosines of cal_cutoff
\* Angles are in hundredths of a degree, cosines in multiples of 2^-24, the
\* spacing of the f32 values with magnitude in [0.5, 1]: F32One stands for 1.0.
F32One == 16777216
Deg(degrees) == 100 * degrees
\* a * b / 2^24 for a, b below 2^26, in pieces that stay below 2^31
MulF(a, b) ==
    LET a1 == a \div 4096
        a0 == a % 4096
        b1 == b \div 4096
        b0 == b % 4096
    IN  a1 * b1 + (a1 * b0 + a0 * b1) \div 4096 + (a0 * b0) \div F32One
\* The square of the angle in radians: c^2 * (pi / 18000)^2, times 2^24, which
\* is c^2 * 0.5110632.
RadSquared(c) ==
    LET a == c * c
    IN  a \div 2 + ((a \div 10000) * 110632) \div 1000
              + ((a % 10000) * 110632) \div 10000000
\* 1 - cos of an angle of at most 90 degrees, by the cosine series up to x^10.
Versine(c) ==
    LET x2 == RadSquared(c)
        x4 == MulF(x2, x2)
        x6 == MulF(x4, x2)
        x8 == MulF(x6, x2)
        x10 == MulF(x8, x2)
    IN  x2 \div 2 - x4 \div 24 + x6 \div 720 - x8 \div 40320 + x10 \div 3628800
\* Deg(c / 100).cos() as an f32, for angles of 0 to 180 degrees.
CosF32(c) ==
    IF c <= Deg(90) THEN F32One - Versine(c) ELSE Versine(Deg(180) - c) - F32One

\* Mutant: no assertion.
CalCutoffUnchecked(inner, outer) ==
    Some(<<CosF32(inner), CosF32(outer), CosF32(inner) - CosF32(outer), F32One>>)

\* cal_cutoff(inner, outer): assert!(inner > outer) on the cosines, then
\* [cos inner, cos outer, cos inner - cos outer, 1.]; None for the panic of a
\* failed assertion.
CalCutoff(inner, outer) ==
    IF CosF32(inner) > CosF32(outer)
    THEN Some(<<CosF32(inner), CosF32(outer), CosF32(inner) - CosF32(outer), F32One>>)
    ELSE None
\* The uniform of the n-th light (from 0) State::new creates; a further light
\* is the default one.
StartLightUniform(n) ==
    CASE n = 0 -> [LightUniformDefault EXCEPT !.color = <<ToF(1), ToF(1), ToF(1), ToF(1)>>]
      [] n = 1 -> [LightUniformDefault EXCEPT
                      !.cutoff_inner_outer_eps = Unwrap(CalCutoff(Deg(4), Deg(30))),
                      !.ambient_strength = "0.01"]
      [] OTHER -> LightUniformDefault
\* calc_view_proj: Projection::new(width, height, Deg(45), 1, 300).calc_matrix()
\* * look_to_rh(position, -direction, unit_y), kept as what it is computed
\* from (dir is the direction that is negated).
CalcViewProj(uniform, config) ==
    [projection |-> [width |-> config.width, height |-> config.height,
                     fovy |-> 45, znear |-> 1, zfar |-> 300],
     eye |-> uniform.position,
     dir |-> uniform.direction,
     up |-> "unit_y"]
\* LightUniform::build_light
BuildLight(light, config) == [light EXCEPT !.view_proj = CalcViewProj(light, config)]

\* LightRenderGroup::new: the uniforms, each through build_light, and, per
\* light, the object drawn for it.
LightRenderGroupNew(light_uniforms_and_objs, config) ==
    [kind |-> "light",
     light_uniforms |-> [n \in 1..Len(light_uniforms_and_objs) |->
                            BuildLight(light_uniforms_and_objs[n][1], config)],
     light_render_triplets |-> [n \in 1..Len(light_uniforms_and_objs) |->
                                   light_uniforms_and_objs[n][2]]]

\* The geometry State::new generates, in the order of its calls.  Nothing but
\* the last of them is written again after startup, so the others are looked
\* up here instead of being carried in every state.
StartGeometry(checks) ==
    [light_cube |-> CreateCube(ToF(LightCubeSize)),
     light_sphere |-> Unwrap(CreateSphere(ToF(SphereRadius), LightSphereSub,
                                          LightSphereSub, checks)),
     square |-> CreateSquare(ToF(SquareHeight), ToF(SquareWidth)),
     floor |-> CreateFloor(ToF(FloorSide), ToF(FloorSide)),
     sphere |-> Unwrap(CreateSphere(ToF(SphereRadius), StartSphereU, StartSphereV,
                                    checks))]
StartGeometryChecked == StartGeometry(TRUE)
StartGeometryWrapping == StartGeometry(FALSE)
Geometry(checks) == IF checks THEN StartGeometryChecked ELSE StartGeometryWrapping

\* The render groups State::new builds, by name, around the geometry geo.
StartGroups(model_girl, model_sword, geo) ==
    [skybox |-> [kind |-> "skybox"],
     light |-> LightRenderGroupNew(<< <<StartLightUniform(0), geo.light_cube>>,
                                      <<StartLightUniform(1), geo.light_sphere>> >>,
                                   StartConfig),
     square |-> GeoRenderGroupNew(
        geo.square,
        InstancesNew(<<InstanceTransform(
            <<0, Half(ToF(SquareHeight)) + ToF(FloorHeight), ToF(0 - 40)>>, "one")>>)),
     floor |-> GeoRenderGroupNew(
        geo.floor,
        InstancesNew(<<InstanceTransform(<<0, ToF(FloorHeight), 0>>, "x-90")>>)),
     girl |-> ModelRenderGroupNew(model_girl,
        InstancesNew(<<InstanceTransform(<<ToF(0 - 60), ToF(0 - 11), 0>>, "one")>>)),
     sword |-> ModelRenderGroupNew(model_sword,
        InstancesNew(<<InstanceTransform(<<0, ToF(0 - 10), 0>>, "one")>>)),
     sphere |-> GeoRenderGroupNew(
        geo.sphere,
        InstancesNew(<<InstanceTransform(<<ToF(60), ToF(5), ToF(0 - 15)>>, "one")>>))]

\* let render_groups = vec![skybox, light_render_group.clone(), render_group, ...]
StartRenderGroups == <<"skybox", "light", "square", "floor", "girl", "sword", "sphere">>

\* State::new(window) for a window of the given inner size.  Of the render
\* groups the State keeps what was loaded (the two models) and what update
\* writes (the object of render_group_sphere); Groups puts them together.
StateNew(size, model_girl, model_sword, checks) ==
    [size |-> size,
     config |-> [width |-> size[1], height |-> size[2]],
     projection |-> [width |-> size[1], height |-> size[2]],
     tex_view |-> [width |-> size[1], height |-> size[2]],
     depth_texture |-> [width |-> size[1], height |-> size[2]],
     frame_count |-> 0,
     mouse_pressed |-> FALSE,
     model_girl |-> model_girl,
     model_sword |-> model_sword,
     sphere_obj |-> Geometry(checks).sphere,
     render_groups |-> StartRenderGroups,
     light_render_group |-> "light",
     render_group_sphere |-> "sphere",
     total_duration |-> 0,
     panicked |-> FALSE]

\* The render groups as they are now: those of State::new, with the object
\* render_group_sphere holds at present.
Groups(st, checks) ==
    [StartGroups(st.model_girl, st.model_sword, Geometry(checks))
        EXCEPT ![st.render_group_sphere].obj = st.sphere_obj]

\* Mutant: the depth texture is kept as it was.
ResizeKeepsDepthTexture(st, new_size) ==
    IF new_size[1] > 0 /\ new_size[2] > 0
    THEN [st EXCEPT !.size = new_size,
                    !.config.width = new_size[1],
                    !.config.height = new_size[2],
                    !.projection = [width |-> new_size[1], height |-> new_size[2]],
                    !.tex_view = [width |-> new_size[1], height |-> new_size[2]]]
    ELSE st

\* State::resize.
Resize(st, new_size) ==
    IF new_size[1] > 0 /\ new_size[2] > 0
    THEN [st EXCEPT !.size = new_size,
                    !.config.width = new_size[1],
                    !.config.height = new_size[2],
                    !.projection = [width |-> new_size[1], height |-> new_size[2]],
                    !.tex_view = [width |-> new_size[1], height |-> new_size[2]],
                    !.depth_texture = [width |-> new_size[1], height |-> new_size[2]]]
    ELSE st

\* Mutant: a lost surface is answered without configuring the surface again.
ResizeStepsNoConfigure(new_size) ==
    IF new_size[1] > 0 /\ new_size[2] > 0
    THEN <<"projection.resize", "create_multisampled_framebuffer", "create_depth_texture">>
    ELSE <<>>

\* The calls of State::resize in the order they are made.
ResizeSteps(new_size) ==
    IF new_size[1] > 0 /\ new_size[2] > 0
    THEN <<"projection.resize", "surface.configure", "create_multisampled_framebuffer",
           "create_depth_texture">>
    ELSE <<>>

\* total_duration.as_secs()
AsSecs(duration) == duration \div TicksPerSec

\* let count = (3 + self.total_duration.as_secs() % 15) as usize
SphereCountBase == 3
SphereCountPeriod == 15
\* Mutant: the period is one second too long.
SphereCountLongPeriod(total_duration) ==
    SphereCountBase + (AsSecs(total_duration) % (SphereCountPeriod + 1))

SphereCount(total_duration) ==
    SphereCountBase + (AsSecs(total_duration) % SphereCountPeriod)

\* create_sphere(10.0, count, count - 1) is a function of count and of the build
\* alone; its values for the counts SphereCount can give are computed once.
RECURSIVE SphereSeq(_, _)
SphereSeq(n, checks) ==
    IF n = 0 THEN <<>>
    ELSE Append(SphereSeq(n - 1, checks),
                CreateSphere(ToF(SphereRadius), SphereCountBase + n - 1,
                             SphereCountBase + n - 2, checks))
AnimatedSpheresChecked == SphereSeq(SphereCountPeriod, TRUE)
AnimatedSpheresWrapping == SphereSeq(SphereCountPeriod, FALSE)
CreateAnimatedSphere(count, checks) ==
    IF count - SphereCountBase + 1 \in 1..SphereCountPeriod
    THEN IF checks THEN AnimatedSpheresChecked[count - SphereCountBase + 1]
         ELSE AnimatedSpheresWrapping[count - SphereCountBase + 1]
    ELSE CreateSphere(ToF(SphereRadius), count, count - 1, checks)

\* State::update(dt).  The camera and the lights are moved first; what they
\* change (view, light positions) is not part of the State modelled here.
Update(st, dt, checks) ==
    LET total == st.total_duration + dt
        count == SphereCount(total)
        obj == CreateAnimatedSphere(count, checks)
    IN  IF IsSome(obj)
        THEN [st EXCEPT !.total_duration = total,
                        !.sphere_obj = Unwrap(obj)]
        ELSE [st EXCEPT !.total_duration = total, !.panicked = TRUE]

\* The calls of State::update in the order they are made.
UpdateSteps ==
    <<"camera_controller.update_camera", "camera.update_camera",
      "light_render_group.update_light", "create_sphere">>

\* surface.get_current_texture(): Ok, or one of the wgpu::SurfaceError values.
SurfaceResults == {"Ok", "Lost", "OutOfMemory", "Outdated", "Timeout"}

\* The render pass State::render records: the camera bind group at slot 0, then
\* every render group in the order of the list.
RenderPass(st, checks) ==
    LET r0 == SetBindGroup(BeginRenderPass, "", 0, Handle("camera_bind_group", "", 0))
    IN  RenderAll(r0, st.render_groups, Groups(st, checks), 1, FALSE)

\* State::render, given what get_current_texture answers: frame_count grows,
\* and with a texture the pass is recorded, submitted and presented.
Render(st, surface, checks) ==
    [state |-> [st EXCEPT !.frame_count = @ + 1],
     pass |-> IF surface = "Ok" THEN RenderPass(st, checks) ELSE BeginRenderPass]

\* Mutant: the frame is presented before the commands are submitted.
RenderStepsPresentFirst(surface) ==
    IF surface = "Ok"
    THEN <<"get_current_texture", "create_command_encoder", "begin_render_pass",
           "render_groups", "end_render_pass", "output.present", "queue.submit">>
    ELSE <<"get_current_texture">>

\* The calls of State::render in the order they are made.
RenderSteps(surface) ==
    IF surface = "Ok"
    THEN <<"get_current_texture", "create_command_encoder", "begin_render_pass",
           "render_groups", "end_render_pass", "queue.submit", "output.present">>
    ELSE <<"get_current_texture">>

\* now - last_render_time: no time at all, one tick, one second, or the longest
\* pause followed.
DtChoices == {0, 1, TicksPerSec, MaxDtSecs * TicksPerSec}

\* Event::RedrawRequested: update, render, and the match on render's result.
RedrawRequested ==
    /\ control_flow = "Poll"
    /\ state.frame_count < MaxFrames
    /\ \E dt \in DtChoices :
          /\ state.total_duration + dt <= MaxTotalSecs * TicksPerSec
          /\ \E updated \in {Update(state, dt, overflow_checks)} :
                IF updated.panicked
                THEN /\ state' = updated
                     /\ control_flow' = "Panicked"
                     /\ frame' = [dt |-> dt, result |-> "panic", steps |-> UpdateSteps,
                                  commands |-> <<>>, calls |-> <<>>]
                ELSE \E surface \in SurfaceResults :
                     \E rendered \in {Render(updated, surface, overflow_checks)} :
                        /\ state' = IF surface = "Lost"
                                    THEN Resize(rendered.state, rendered.state.size)
                                    ELSE rendered.state
                        /\ control_flow' = IF surface = "OutOfMemory" THEN "Exit"
                                           ELSE "Poll"
                        /\ frame' = [dt |-> dt, result |-> surface,
                                     steps |-> UpdateSteps \o RenderSteps(surface)
                                               \o IF surface = "Lost"
                                                  THEN <<"resize">>
                                                       \o ResizeSteps(rendered.state.size)
                                                  ELSE IF surface = "Ok" THEN <<>>
                                                  ELSE IF surface = "OutOfMemory"
                                                  THEN <<"control_flow = Exit">>
                                                  ELSE <<"eprintln">>,
                                     commands |-> rendered.pass.commands,
                                     calls |-> rendered.pass.calls]
    /\ UNCHANGED <<overflow_checks, sphere_vars, shape, scene_vars, instance_vars, light_vars, aux_vars>>

\* The sizes resize events carry.
ResizeArgs == {<<0, 0>>, <<0, 1>>, <<1, 0>>, <<1, 1>>, <<2, 1>>}

\* WindowEvent::Resized / ScaleFactorChanged.
WindowResized ==
    /\ control_flow = "Poll"
    /\ \E new_size \in ResizeArgs : state' = Resize(state, new_size)
    /\ UNCHANGED <<control_flow, frame, overflow_checks, sphere_vars, shape, scene_vars, instance_vars, light_vars, aux_vars>>

\* WindowEvent::CloseRequested.
CloseRequested ==
    /\ control_flow = "Poll"
    /\ control_flow' = "Exit"
    /\ UNCHANGED <<state, frame, overflow_checks, sphere_vars, shape, scene_vars, instance_vars, light_vars, aux_vars>>

\* run(): the window is built, State::new has finished, the event loop polls.
Init ==
    /\ overflow_checks \in BOOLEAN
    /\ SphereIdle
    /\ shape = NoShape
    /\ \E girl \in Models :
          state = StateNew(StartSize, girl, OneMeshModel, overflow_checks)
    /\ control_flow = "Poll"
    /\ frame = NoFrame
    /\ SceneIdle
    /\ InstanceIdle
    /\ LightIdle
    /\ AuxIdle

Next ==
    \/ RedrawRequested
    \/ WindowResized
    \/ CloseRequested

Spec == Init /\ [][Next]_vars

\* ================================================ registration orders
\* State::render for a State whose render groups were registered in another
\* order: every permutation of the list State::new builds.
RenderGroupOrders ==
    {[n \in 1..Len(StartRenderGroups) |-> StartRenderGroups[p[n]]] :
        p \in Permutations(1..Len(StartRenderGroups))}

\* One frame is rendered, the surface texture being available.
RenderInOrder ==
    /\ frame = NoFrame
    /\ \E rendered \in {Render(state, "Ok", overflow_checks)} :
          /\ state' = rendered.state
          /\ frame' = [dt |-> 0,
                       result |-> "Ok",
                       steps |-> RenderSteps("Ok"),
                       commands |-> rendered.pass.commands,
                       calls |-> rendered.pass.calls]
    /\ UNCHANGED <<control_flow, overflow_checks, sphere_vars, shape, scene_vars, instance_vars, light_vars, aux_vars>>

InitOrder ==
    /\ overflow_checks = TRUE
    /\ SphereIdle
    /\ shape = NoShape
    /\ \E order \in RenderGroupOrders :
          state = [StateNew(StartSize, MakeModel(2, 2), OneMeshModel, overflow_checks)
                      EXCEPT !.render_groups = order]
    /\ control_flow = "Poll"
    /\ frame = NoFrame
    /\ SceneIdle
    /\ InstanceIdle
    /\ LightIdle
    /\ AuxIdle

NextOrder == RenderInOrder

SpecOrder == InitOrder /\ [][NextOrder]_vars

\* ====================================================== pipeline layouts
\* What a pipeline declares: bind_group_layouts of its PipelineLayoutDescriptor
\* and buffers of its VertexState, both in order.  A bind group layout is named
\* by what it describes, a vertex buffer layout by the function that returns it.
\* GeoRenderGroup::new
GeoPipelineLayout ==
    [bind_group_layouts |-> <<"camera", "light", "texture">>,
     buffers |-> <<"Vertex::desc", "world_space::desc">>]
\* ModelRenderGroup::new
ModelPipelineLayout ==
    [bind_group_layouts |-> <<"camera", "light", "texture", "material_uniform">>,
     buffers |-> <<"world_space::desc", "Vertex::desc">>]
\* LightRenderGroup::new
LightPipelineLayout ==
    [bind_group_layouts |-> <<"camera", "light">>,
     buffers |-> <<"Vertex::desc">>]
\* the skybox pipeline (skybox.rs)
SkyPipelineLayout ==
    [bind_group_layouts |-> <<"camera", "skybox">>,
     buffers |-> <<>>]
\* ShadowPass::new
ShadowPipelineLayout ==
    [bind_group_layouts |-> <<"light">>,
     buffers |-> <<"world_space::desc", "Vertex::desc">>]
NoPipelineLayout == [bind_group_layouts |-> <<>>, buffers |-> <<>>]
\* The layout of the pipeline a handle names; grps are the render groups.
PipelineLayout(pipeline, grps) ==
    CASE pipeline.kind = "render_pipeline" ->
            IF grps[pipeline.of].kind = "geo" THEN GeoPipelineLayout
            ELSE ModelPipelineLayout
      [] pipeline.kind = "light_render_pipeline" -> LightPipelineLayout
      [] pipeline.kind = "sky_pipeline" -> SkyPipelineLayout
      [] pipeline.kind = "pipeline" -> ShadowPipelineLayout
      [] OTHER -> NoPipelineLayout
\* The layout a bind group was created with.
BindGroupLayout(bind_group) ==
    CASE bind_group.kind = "camera_bind_group" -> "camera"
      [] bind_group.kind \in {"bind_group_per_light", "light_bind_group"} -> "light"
      [] bind_group.kind \in {"texture_bind_group", "material_bind_group"} -> "texture"
      [] bind_group.kind = "material_uniform_bind_group" -> "material_uniform"
      [] bind_group.kind = "bind_group" -> "skybox"
      [] OTHER -> "none"
\* The layout of the data a vertex buffer holds: Vertex for geometry, InstanceRaw
\* (world_space::desc) for instances.
BufferLayout(buffer) ==
    CASE buffer.kind \in {"vertex_buffer", "light_vertex_buffer", "mesh_vertex_buffer"} ->
            "Vertex::desc"
      [] buffer.kind = "instance_buffer" -> "world_space::desc"
      [] OTHER -> "none"

\* ======================================================= the shadow pass
\* bounds of the scenes a shadow pass is recorded for
MaxLights == 3
MaxRefs == 2

\* Width and height of the shadow texture, and the clear value of the depth
\* attachment (fixed point).
ShadowMapSize == 2048
ShadowClearDepth == ToF(1)

\* The n-th light (from 0) of a scene: the lights State::new builds, and
\* default lights after them.
SceneLight(n, geo) ==
    <<StartLightUniform(n), IF n % 2 = 0 THEN geo.light_cube ELSE geo.light_sphere>>
\* The render groups of a scene with n lights.
SceneGroups(n) ==
    [StartGroups(MakeModel(2, 2), OneMeshModel, StartGeometryChecked)
        EXCEPT !.light = LightRenderGroupNew([k \in 1..n |->
                                                 SceneLight(k - 1, StartGeometryChecked)],
                                             StartConfig)]
\* light_render_triplets as LightRenderGroup::new zips them: per light its
\* buffer, its bind group and its object.
LightRenderTriplets(id, grp) ==
    [k \in 1..Len(grp.light_render_triplets) |->
        [buffer |-> Handle("buffer_per_light", id, k - 1),
         bind_group |-> Handle("bind_group_per_light", id, k - 1),
         obj |-> grp.light_render_triplets[k]]]

\* A shadow pass with a single target view, whatever the number of lights.
ShadowPassNewOneView(light_render_group) ==
    [shadow_texture |-> [width |-> ShadowMapSize, height |-> ShadowMapSize,
                         depth_or_array_layers |-> 1],
     shadow_target_views |-> <<[base_array_layer |-> 0, array_layer_count |-> 1]>>,
     pipeline |-> Handle("pipeline", "shadow", 0)]
\* ShadowPass::new(device, light_render_group)
ShadowPassNew(light_render_group) ==
    LET light_count == Len(light_render_group.light_render_triplets)
    IN  [shadow_texture |-> [width |-> ShadowMapSize, height |-> ShadowMapSize,
                             depth_or_array_layers |-> light_count],
         shadow_target_views |-> [k \in 1..light_count |->
                                     [base_array_layer |-> k - 1,
                                      array_layer_count |-> 1]],
         pipeline |-> Handle("pipeline", "shadow", 0)]

\* ShadowPass::render_pass(encoder, refs, lights): the loop over the lights
\* from light i on; recorded holds the passes of the lights before it.
\* Indexing shadow_target_views out of range panics.
RECURSIVE ShadowRenderPassLoop(_, _, _, _, _, _)
ShadowRenderPassLoop(shadow_pass, refs, grps, lights, i, recorded) ==
    IF i >= Len(lights) THEN [pc |-> "returned", list |-> recorded]
    ELSE IF i >= Len(shadow_pass.shadow_target_views)
         THEN [pc |-> "panicked", list |-> recorded]
    ELSE LET desc == [label |-> "ShadowPass",
                      color_attachments |-> <<>>,
                      depth_stencil_attachment |->
                          [view |-> VecGet(shadow_pass.shadow_target_views, i),
                           load |-> <<"Clear", ShadowClearDepth>>,
                           store |-> TRUE,
                           stencil_ops |-> <<>>]]
             r1 == SetPipeline(BeginRenderPass, "shadow", shadow_pass.pipeline)
             r2 == SetBindGroup(r1, "shadow", 0, VecGet(lights, i).bind_group)
             r3 == RenderAll(r2, refs, grps, 1, TRUE)
         IN  ShadowRenderPassLoop(shadow_pass, refs, grps, lights, i + 1,
                                  Append(recorded, [desc |-> desc, pass |-> r3]))
ShadowRenderPass(shadow_pass, refs, grps, lights) ==
    ShadowRenderPassLoop(shadow_pass, refs, grps, lights, 0, <<>>)

\* The lists of render groups handed to render_pass: the registered list, and
\* every list of up to MaxRefs different groups.
SceneRefs ==
    {StartRenderGroups} \cup
    {refs \in UNION {[1..m -> {StartRenderGroups[k] : k \in 1..Len(StartRenderGroups)}] :
                        m \in 0..MaxRefs} :
        \A a, b \in 1..Len(refs) : a # b => refs[a] # refs[b]}

\* The shadow pass is built for the light group of the scene and run with that
\* group's lights (the call is not in lib.rs here).
ShadowPassCall ==
    /\ passes.pc = "idle"
    /\ passes' = ShadowRenderPass(ShadowPassNew(SceneGroups(scene.lights).light),
                                   scene.refs, SceneGroups(scene.lights),
                                   LightRenderTriplets("light",
                                                       SceneGroups(scene.lights).light))
    /\ UNCHANGED <<scene, overflow_checks, sphere_vars, shape, prog_vars, instance_vars,
                   light_vars, aux_vars>>

InitShadow ==
    /\ overflow_checks = TRUE
    /\ SphereIdle
    /\ shape = NoShape
    /\ ProgramNotStarted
    /\ scene \in [refs : SceneRefs, lights : 1..MaxLights]
    /\ passes = NoPasses
    /\ InstanceIdle
    /\ LightIdle
    /\ AuxIdle

NextShadow == ShadowPassCall

SpecShadow == InitShadow /\ [][NextShadow]_vars

\* ================================================= color pass and lights
\* The render groups of State::new around other lights and models: light k
\* (from 0) has color[3] = alphas[k + 1], everything else as State::new sets it.
LitGroups(alphas, model_girl, model_sword) ==
    [StartGroups(model_girl, model_sword, StartGeometryChecked)
        EXCEPT !.light = LightRenderGroupNew(
            [k \in 1..Len(alphas) |->
                <<[StartLightUniform(k - 1) EXCEPT !.color[4] = alphas[k]],
                  SceneLight(k - 1, StartGeometryChecked)[2]>>],
            StartConfig)]
\* color[3] of a light: 0 (the light is not drawn) or 1
Alphas == UNION {[1..n -> {0, ToF(1)}] : n \in 1..MaxLights}

\* The color pass of State::render over the scene, in the registered order.
ColorPassCall ==
    /\ passes.pc = "idle"
    /\ passes' = [pc |-> "returned",
                  list |-> <<[desc |-> [label |-> "Render Pass"],
                              pass |-> RenderAll(
                                  SetBindGroup(BeginRenderPass, "", 0,
                                               Handle("camera_bind_group", "", 0)),
                                  scene.refs,
                                  LitGroups(scene.alphas, scene.girl, scene.sword),
                                  1, FALSE)]>>]
    /\ UNCHANGED <<scene, overflow_checks, sphere_vars, shape, prog_vars, instance_vars,
                   light_vars, aux_vars>>

InitColor ==
    /\ overflow_checks = TRUE
    /\ SphereIdle
    /\ shape = NoShape
    /\ ProgramNotStarted
    /\ \E alphas \in Alphas, girl \in Models, sword \in Models :
          scene = [refs |-> StartRenderGroups, lights |-> Len(alphas), alphas |-> alphas,
                   girl |-> girl, sword |-> sword]
    /\ passes = NoPasses
    /\ InstanceIdle
    /\ LightIdle
    /\ AuxIdle

NextColor == ColorPassCall

SpecColor == InitColor /\ [][NextColor]_vars

\* ================================================== instance transforms
\* cgmath::Quaternion { s, v }.  The components are integers and stand for the
\* unit quaternion of that direction, (s, v) / |(s, v)|, so that every product
\* of two components is a whole number over Norm2.
Quaternion(s, v) == [s |-> s, v |-> v]
Norm2(q) == q.s * q.s + q.v[1] * q.v[1] + q.v[2] * q.v[2] + q.v[3] * q.v[3]
\* The rotations State::new gives its instances: Quaternion::one() and
\* from_axis_angle(unit_x, Deg(-90)), which is (cos -45, sin -45 * unit_x).
RotationQuaternion(rotation) ==
    CASE rotation = "one" -> Quaternion(1, <<0, 0, 0>>)
      [] rotation = "x-90" -> Quaternion(1, <<0 - 1, 0, 0>>)

\* A matrix is the tuple of its columns (cgmath is column-major), its entries
\* whole numbers over den.
Matrix(den, cols) == [den |-> den, cols |-> cols]
\* Matrix4::from_translation(v)
Matrix4FromTranslation(v) ==
    Matrix(1, << <<1, 0, 0, 0>>, <<0, 1, 0, 0>>, <<0, 0, 1, 0>>, <<v[1], v[2], v[3], 1>> >>)
\* Matrix3::from(quaternion): with x2 = x + x, xx2 = x2 * x, ... the columns are
\* (1 - yy2 - zz2, xy2 + sz2, xz2 - sy2), (xy2 - sz2, 1 - xx2 - zz2, yz2 + sx2),
\* (xz2 + sy2, yz2 - sx2, 1 - xx2 - yy2).
Matrix3FromQuaternion(q) ==
    LET n == Norm2(q)
        sx2 == 2 * q.s * q.v[1]
        sy2 == 2 * q.s * q.v[2]
        sz2 == 2 * q.s * q.v[3]
        xx2 == 2 * q.v[1] * q.v[1]
        xy2 == 2 * q.v[1] * q.v[2]
        xz2 == 2 * q.v[1] * q.v[3]
        yy2 == 2 * q.v[2] * q.v[2]
        yz2 == 2 * q.v[2] * q.v[3]
        zz2 == 2 * q.v[3] * q.v[3]
    IN  Matrix(n, << <<n - yy2 - zz2, xy2 + sz2, xz2 - sy2>>,
                     <<xy2 - sz2, n - xx2 - zz2, yz2 + sx2>>,
                     <<xz2 + sy2, yz2 - sx2, n - xx2 - yy2>> >>)
\* Matrix4::from(quaternion): the same, with a fourth row and column of the
\* identity.
Matrix4FromQuaternion(q) ==
    LET m == Matrix3FromQuaternion(q)
    IN  Matrix(m.den, << Append(m.cols[1], 0), Append(m.cols[2], 0), Append(m.cols[3], 0),
                         <<0, 0, 0, m.den>> >>)
\* Matrix4 * Vector4
Matrix4MulVector(m, v) ==
    [i \in 1..4 |-> m.cols[1][i] * v[1] + m.cols[2][i] * v[2]
                     + m.cols[3][i] * v[3] + m.cols[4][i] * v[4]]
\* Matrix4 * Matrix4: column j of the product is a times column j of b.
Matrix4Mul(a, b) ==
    Matrix(a.den * b.den, [j \in 1..4 |-> Matrix4MulVector(a, b.cols[j])])

\* to_raw with the two factors exchanged.
ToRawRotationLast(transform) ==
    [model |-> Matrix4Mul(Matrix4FromQuaternion(transform.rotation),
                          Matrix4FromTranslation(transform.position)),
     normal |-> Matrix3FromQuaternion(transform.rotation)]
\* InstanceTransform::to_raw
ToRaw(transform) ==
    [model |-> Matrix4Mul(Matrix4FromTranslation(transform.position),
                          Matrix4FromQuaternion(transform.rotation)),
     normal |-> Matrix3FromQuaternion(transform.rotation)]

\* bound of the coordinates of the positions tried
MaxCoord == 1
\* The transforms to_raw is called with: those of the instances State::new
\* creates, and every position and rotation of small whole components.
StartTransforms ==
    {[position |-> t.position, rotation |-> RotationQuaternion(t.rotation)] :
        t \in {StartGroups(OneMeshModel, OneMeshModel, StartGeometryChecked)[id]
                  .instances.instance_transforms[1] :
               id \in {"square", "floor", "girl", "sword", "sphere"}}}
Coords == (0 - MaxCoord)..MaxCoord
QuaternionParts == {0 - 1, 0, 1}
Rotations ==
    {Quaternion(s, <<a, b, c>>) :
        s \in QuaternionParts, a \in QuaternionParts, b \in QuaternionParts,
        c \in QuaternionParts} \ {Quaternion(0, <<0, 0, 0>>)}
Transforms ==
    StartTransforms \cup
    {[position |-> <<x, y, z>>, rotation |-> q] :
        x \in Coords, y \in Coords, z \in Coords, q \in Rotations}

\* Instances::new maps every transform through to_raw.
CallToRaw ==
    /\ instance = None
    /\ \E transform \in Transforms :
          instance' = Some([transform |-> transform, raw |-> ToRaw(transform)])
    /\ UNCHANGED <<overflow_checks, sphere_vars, shape, prog_vars, scene_vars, light_vars, aux_vars>>

InitInstance ==
    /\ overflow_checks = TRUE
    /\ SphereIdle
    /\ shape = NoShape
    /\ ProgramNotStarted
    /\ SceneIdle
    /\ InstanceIdle
    /\ LightIdle
    /\ AuxIdle

NextInstance == CallToRaw

SpecInstance == InitInstance /\ [][NextInstance]_vars

\* ======================================================== light updates
\* rotation * v for the rotation about the world Y axis by the angle turn.
TurnY(turn, vec) == Turned(vec.v, (vec.turn + turn) % FullTurn)
\* Deg(-100. * dt.as_secs_f32()), dt in ticks, the angle in degrees / TicksPerSec
LightRotation(dt) == (0 - 100) * dt
Add3(a, b) == <<a[1] + b[1], a[2] + b[2], a[3] + b[3]>>
Scale3(a, k) == <<a[1] * k, a[2] * k, a[3] * k>>

\* The body of the loop of update_light over light_uniforms for light i (from
\* 0): build_light first, then the move of lights 0 and 1; st is the State
\* ([config, camera]).
UpdateUniform(uniform, i, rotation, st) ==
    LET built == BuildLight(uniform, st.config)
    IN  IF i = 0
        THEN [built EXCEPT !.position = TurnY(rotation, built.position),
                           !.direction = TurnY(rotation, built.position)]
        ELSE IF i = 1
        THEN [built EXCEPT
                 !.position = Turned(Add3(st.camera.position, Scale3(st.camera.dir, 10)), 0),
                 !.direction = Turned(Scale3(st.camera.dir, 0 - 1), 0)]
        ELSE built
\* An update that turns light 0 the other way round.
UpdateLightTurningBack(grp, dt, st) ==
    LET uniforms == [k \in 1..Len(grp.light_uniforms) |->
                        UpdateUniform(grp.light_uniforms[k], k - 1,
                                      0 - LightRotation(dt), st)]
    IN  [light_uniforms |-> uniforms,
         buffer |-> IF Len(uniforms) > 0 THEN uniforms ELSE grp.buffer,
         buffers |-> uniforms]
\* LightRenderGroup::update_light(dt, state): every uniform is updated, then
\* the whole list is written to the group's buffer and every uniform to its
\* light's own buffer (nothing is written when there is no light).
UpdateLight(grp, dt, st) ==
    LET uniforms == [k \in 1..Len(grp.light_uniforms) |->
                        UpdateUniform(grp.light_uniforms[k], k - 1, LightRotation(dt), st)]
    IN  [light_uniforms |-> uniforms,
         buffer |-> IF Len(uniforms) > 0 THEN uniforms ELSE grp.buffer,
         buffers |-> uniforms]

\* What camera.view holds at an update: a position and a facing (a unit
\* vector), in fixed point.
Cameras ==
    [position : {<<0, ToF(5), ToF(10)>>, <<ToF(1), 0, 0>>},
     dir : {<<0, 0, ToF(0 - 1)>>, <<ToF(1), 0, 0>>}]

\* State::update: the camera has moved, update_light follows.
CallUpdateLight ==
    /\ light_group # NoLightGroup
    /\ \E dt \in DtChoices, view \in Cameras :
          /\ light_call' = [dt |-> dt, camera |-> view]
          /\ light_group' = UpdateLight(light_group, dt,
                                        [config |-> StartConfig, camera |-> view])
    /\ UNCHANGED <<overflow_checks, sphere_vars, shape, prog_vars, scene_vars,
                   instance_vars, aux_vars>>

\* LightRenderGroup::new for 1..MaxLights lights: the buffers hold the uniforms.
InitLight ==
    /\ overflow_checks = TRUE
    /\ SphereIdle
    /\ shape = NoShape
    /\ ProgramNotStarted
    /\ SceneIdle
    /\ InstanceIdle
    /\ light_call = NoLightCall
    /\ \E n \in 1..MaxLights :
          light_group = [light_uniforms |-> SceneGroups(n).light.light_uniforms,
                         buffer |-> SceneGroups(n).light.light_uniforms,
                         buffers |-> SceneGroups(n).light.light_uniforms]
    /\ AuxIdle

NextLight == CallUpdateLight

SpecLight == InitLight /\ [][NextLight]_vars

\* ------------------------------------------ the index counter of get_index
\* The slots build_sphere asks get_index for: every slot of the grid once there
\* is a cell, none without one.
SlotsRequested(u, v) == IF u = 0 \/ v = 0 THEN 0 ELSE (u + 1) * (v + 1)

\* get_index on a slot that holds None, the vertex list kept as its length and
\* the indices stored in the grid as the range given[1]..given[2] they fill;
\* aliased records that the index handed out was already stored in a slot.
FreshIndex(c, checks) ==
    LET old == c.index
        stored == old \in c.given[1]..c.given[2]
    IN  [c EXCEPT !.pushed = @ + 1,
                  !.given = IF stored THEN @
                            ELSE IF @[2] < @[1] THEN <<old, old>>
                            ELSE <<IF old < @[1] THEN old ELSE @[1],
                                   IF old > @[2] THEN old ELSE @[2]>>,
                  !.aliased = @ \/ stored,
                  !.index = IF checks /\ IndexIncrPanics(old) THEN old
                            ELSE IndexIncrWraps(old),
                  !.panicked = checks /\ IndexIncrPanics(old)]

\* The spheres the program asks for: create_sphere(10., 20, 20) for the light,
\* create_sphere(10.0, 3, 2) at startup, create_sphere(10.0, count, count - 1)
\* in update.
ProgramSpheres ==
    {<<LightSphereSub, LightSphereSub>>, <<StartSphereU, StartSphereV>>}
        \union {<<SphereCountBase + n, SphereCountBase + n - 1>> :
                    n \in 0..(SphereCountPeriod - 1)}
\* Spheres with as many slots as a u16 counts, one fewer, and more.
LargeSpheres == {<<254, 256>>, <<255, 255>>, <<256, 256>>}
SphereRequests == ProgramSpheres \union LargeSpheres \union {<<0, 2>>, <<2, 0>>}

\* SphereGenerator::new: index: 0, nothing pushed, every slot None.
CounterNew ==
    /\ counter.pc = "idle"
    /\ \E s \in SphereRequests :
          counter' = [NoCounter EXCEPT !.pc = "run", !.u = s[1], !.v = s[2]]
    /\ UNCHANGED <<overflow_checks, sphere_vars, shape, prog_vars, scene_vars,
                   instance_vars, light_vars, cutoff, event>>

\* The next get_index call of build_sphere that finds its slot empty.
CounterGetIndex ==
    /\ counter.pc = "run"
    /\ ~counter.panicked
    /\ counter.pushed < SlotsRequested(counter.u, counter.v)
    /\ counter' = FreshIndex(counter, overflow_checks)
    /\ UNCHANGED <<overflow_checks, sphere_vars, shape, prog_vars, scene_vars,
                   instance_vars, light_vars, cutoff, event>>

\* build_sphere returns, or the panic unwinds.
CounterDone ==
    /\ counter.pc = "run"
    /\ counter.panicked \/ counter.pushed = SlotsRequested(counter.u, counter.v)
    /\ counter' = [counter EXCEPT !.pc = "done"]
    /\ UNCHANGED <<overflow_checks, sphere_vars, shape, prog_vars, scene_vars,
                   instance_vars, light_vars, cutoff, event>>

CounterReset ==
    /\ counter.pc = "done"
    /\ counter' = NoCounter
    /\ UNCHANGED <<overflow_checks, sphere_vars, shape, prog_vars, scene_vars,
                   instance_vars, light_vars, cutoff, event>>

InitCounter ==
    /\ overflow_checks \in BOOLEAN
    /\ SphereIdle
    /\ shape = NoShape
    /\ ProgramNotStarted
    /\ SceneIdle
    /\ InstanceIdle
    /\ LightIdle
    /\ AuxIdle

NextCounter ==
    \/ CounterNew
    \/ CounterGetIndex
    \/ CounterDone
    \/ CounterReset

SpecCounter == InitCounter /\ [][NextCounter]_vars

\* ------------------------------------------------- window and device events
\* State::input(event, window): what it returns and the State it leaves.
\* consumed is what camera_controller.process_keyboard returns for the key.
Input(st, ev, consumed) ==
    CASE ev.kind = "KeyboardInput" /\ ev.key # "None" ->
            [state |-> st, result |-> consumed]
      [] ev.kind = "MouseWheel" ->
            [state |-> st, result |-> TRUE]
      [] ev.kind = "MouseInput" /\ ev.button = "Left" /\ ev.state = "Pressed" ->
            [state |-> [st EXCEPT !.mouse_pressed = TRUE], result |-> TRUE]
      [] OTHER ->
            [state |-> st, result |-> FALSE]

\* Mutant: the arms run whatever State::input returned.
WindowEventUnguarded(st, cf, ev, consumed) ==
    LET in == Input(st, ev, consumed)
    IN  CASE ev.kind = "CloseRequested" ->
                [state |-> in.state, control_flow |-> "Exit", input |-> in.result,
                 handled |-> "close"]
          [] ev.kind = "KeyboardInput" /\ ev.state = "Pressed" /\ ev.key = "Escape" ->
                [state |-> [in.state EXCEPT !.mouse_pressed = FALSE], control_flow |-> cf,
                 input |-> in.result, handled |-> "escape"]
          [] ev.kind \in {"Resized", "ScaleFactorChanged"} ->
                [state |-> Resize(in.state, ev.size), control_flow |-> cf,
                 input |-> in.result, handled |-> "resize"]
          [] OTHER ->
                [state |-> in.state, control_flow |-> cf, input |-> in.result,
                 handled |-> "none"]

\* Event::WindowEvent of this window: the arm is taken if !state.input(..),
\* then the inner match.
WindowEvent(st, cf, ev, consumed) ==
    LET in == Input(st, ev, consumed)
    IN  IF in.result
        THEN [state |-> in.state, control_flow |-> cf, input |-> TRUE, handled |-> "none"]
        ELSE CASE ev.kind = "CloseRequested" ->
                     [state |-> in.state, control_flow |-> "Exit", input |-> FALSE,
                      handled |-> "close"]
               [] ev.kind = "KeyboardInput" /\ ev.state = "Pressed" /\ ev.key = "Escape" ->
                     [state |-> [in.state EXCEPT !.mouse_pressed = FALSE],
                      control_flow |-> cf, input |-> FALSE, handled |-> "escape"]
               [] ev.kind \in {"Resized", "ScaleFactorChanged"} ->
                     [state |-> Resize(in.state, ev.size), control_flow |-> cf,
                      input |-> FALSE, handled |-> "resize"]
               [] OTHER ->
                     [state |-> in.state, control_flow |-> cf, input |-> FALSE,
                      handled |-> "none"]

\* The window events that reach the loop.
KeyEvents == {Event("KeyboardInput", key, st, "", <<0, 0>>) :
                 key \in {"None", "Escape", "W"}, st \in {"Pressed", "Released"}}
MouseEvents == {Event("MouseInput", "", st, button, <<0, 0>>) :
                   button \in {"Left", "Right"}, st \in {"Pressed", "Released"}}
                  \union {Event("MouseWheel", "", "", "", <<0, 0>>)}
SizeEvents == {Event(kind, "", "", "", size) :
                  kind \in {"Resized", "ScaleFactorChanged"}, size \in ResizeArgs}
WindowEvents == KeyEvents \union MouseEvents \union SizeEvents
                   \union {Event("CloseRequested", "", "", "", <<0, 0>>),
                           Event("Focused", "", "", "", <<0, 0>>)}
\* What process_keyboard may return for a key event.
Consumes(ev) == IF ev.kind = "KeyboardInput" /\ ev.key # "None" THEN BOOLEAN ELSE {FALSE}

\* Event::WindowEvent { event, window_id } if window_id == window.id()
WindowEventArrives ==
    /\ control_flow = "Poll"
    /\ \E ev \in WindowEvents : \E consumed \in Consumes(ev) :
       \E done \in {WindowEvent(state, control_flow, ev, consumed)} :
          /\ state' = done.state
          /\ control_flow' = done.control_flow
          /\ event' = [event |-> ev, input |-> done.input, handled |-> done.handled,
                       pressed |-> state.mouse_pressed]
    /\ UNCHANGED <<frame, overflow_checks, sphere_vars, shape, scene_vars, instance_vars,
                   light_vars, counter, cutoff>>

\* Event::DeviceEvent { event: DeviceEvent::MouseMotion { delta } }
MouseMotion ==
    /\ control_flow = "Poll"
    /\ event' = [event |-> Event("MouseMotion", "", "", "", <<0, 0>>), input |-> FALSE,
                 handled |-> IF state.mouse_pressed THEN "process_mouse" ELSE "none",
                 pressed |-> state.mouse_pressed]
    /\ UNCHANGED <<prog_vars, overflow_checks, sphere_vars, shape, scene_vars,
                   instance_vars, light_vars, counter, cutoff>>

NextInput ==
    \/ WindowEventArrives
    \/ MouseMotion

SpecInput == Init /\ [][NextInput]_vars

\* ------------------------------------------------------------- cal_cutoff
\* The angles cal_cutoff is called with: whole degrees, and angles a few
\* hundredths of a degree from 0 and from 180.
CutoffAngles == {Deg(d) : d \in {0, 4, 30, 45, 90, 120, 176, 180}}
                   \union {1, 2, 3, Deg(180) - 2, Deg(180) - 1}

CallCalCutoff ==
    /\ cutoff = None
    /\ \E inner \in CutoffAngles, outer \in CutoffAngles :
          cutoff' = Some([inner |-> inner, outer |-> outer,
                          result |-> CalCutoff(inner, outer)])
    /\ UNCHANGED <<overflow_checks, sphere_vars, shape, prog_vars, scene_vars,
                   instance_vars, light_vars, counter, event>>

\* The caller goes on (or the panic has unwound); another call may follow.
CutoffReturn ==
    /\ cutoff # None
    /\ cutoff' = None
    /\ UNCHANGED <<overflow_checks, sphere_vars, shape, prog_vars, scene_vars,
                   instance_vars, light_vars, counter, event>>

NextCutoff ==
    \/ CallCalCutoff
    \/ CutoffReturn

SpecCutoff == InitCounter /\ [][NextCutoff]_vars

\* ------------------------------------------------ ModelRenderGroup alone
\* The models a loader can hand over: up to MaxMeshes meshes, each with a
\* material index that need not be below the number of materials.
MaxMeshes == 2
MaxMaterials == 2
MaxInstances == 2
MeshChoices == [num_elements : {3, 6}, material : 0..MaxMaterials]
LoadedModels ==
    {[meshes |-> meshes, materials |-> k] :
        meshes \in UNION {[1..n -> MeshChoices] : n \in 0..MaxMeshes},
        k \in 0..MaxMaterials}
\* Instances of n transforms.
InstancesOf(n) ==
    InstancesNew([k \in 1..n |-> InstanceTransform(<<ToF(k), 0, 0>>, "one")])

\* ModelRenderGroup::new: the pipeline layout takes the uniform layout of
\* model.materials[0], a panic without materials.
ModelGroupNewCall ==
    /\ passes.pc = "idle"
    /\ scene.group = None
    /\ IF MaterialInBounds(scene.model, 0)
       THEN /\ scene' = [scene EXCEPT
                            !.group = Some(ModelRenderGroupNew(scene.model,
                                                               InstancesOf(scene.instances)))]
            /\ passes' = passes
       ELSE /\ passes' = [pc |-> "panicked", list |-> <<>>]
            /\ scene' = scene
    /\ UNCHANGED <<overflow_checks, sphere_vars, shape, prog_vars, instance_vars,
                   light_vars, aux_vars>>

\* ModelRenderGroup::render on a render pass that has just begun.
ModelGroupRenderCall ==
    /\ passes.pc = "idle"
    /\ IsSome(scene.group)
    /\ \E rp \in {ModelRender(BeginRenderPass, "model", Unwrap(scene.group))} :
          passes' = [pc |-> IF rp.panicked THEN "panicked" ELSE "returned",
                     list |-> <<[desc |-> [label |-> "Render Pass"], pass |-> rp]>>]
    /\ UNCHANGED <<scene, overflow_checks, sphere_vars, shape, prog_vars, instance_vars,
                   light_vars, aux_vars>>

InitModel ==
    /\ overflow_checks \in BOOLEAN
    /\ SphereIdle
    /\ shape = NoShape
    /\ ProgramNotStarted
    /\ passes = NoPasses
    /\ \E model \in LoadedModels, n \in 0..MaxInstances :
          scene = [refs |-> <<>>, lights |-> 0, model |-> model, instances |-> n,
                   group |-> None]
    /\ InstanceIdle
    /\ LightIdle
    /\ AuxIdle

NextModel ==
    \/ ModelGroupNewCall
    \/ ModelGroupRenderCall

SpecModel == InitModel /\ [][NextModel]_vars

\* ================================================================ claims
\* ---- helpers of the statements
Range(seq) == {seq[n] : n \in 1..Len(seq)}
\* every element of index_data is < the length of vertex_data
IndicesInRange(obj) == \A n \in 1..Len(obj.index_data) :
                          obj.index_data[n] \in 0..(Len(obj.vertex_data) - 1)
\* the position of the vertex an index refers to
PosOf(obj, ix) == obj.vertex_data[ix + 1].position
Sub3(a, b) == <<a[1] - b[1], a[2] - b[2], a[3] - b[3]>>
Cross3(a, b) == <<a[2] * b[3] - a[3] * b[2],
                  a[3] * b[1] - a[1] * b[3],
                  a[1] * b[2] - a[2] * b[1]>>
\* (b - a) x (c - a) of the t-th index triplet of obj (t from 0)
TriangleNormal(obj, t) ==
    LET a == PosOf(obj, obj.index_data[3 * t + 1])
        b == PosOf(obj, obj.index_data[3 * t + 2])
        c == PosOf(obj, obj.index_data[3 * t + 3])
    IN  Cross3(Sub3(b, a), Sub3(c, a))
\* the vertex build_sphere creates for latitude step i, longitude step j
CornerVertex(g, i, j) == [r |-> g.radius, theta |-> <<i, g.v>>, phi |-> <<2 * j, g.u>>]
SphereRunning == sph_pc \in {"loop", "done"}
SphereDone == sph_pc = "done"

\* The step-by-step run of create_sphere ends with the object the operator
\* CreateSphere (used by the frame loop) computes.
StepwiseAgreesWithCreateSphere ==
    SphereDone => sph_obj = CreateSphere(gen.radius, gen.u, gen.v, overflow_checks)

\* C1: for all subdivision counts u >= 2 and v >= 2, create_sphere returns an
\* index list of exactly 6 * u * v entries, each of them strictly less than the
\* number of vertices returned.
C1_SphereIndexCount ==
    (SphereDone /\ gen.u >= 2 /\ gen.v >= 2) =>
        /\ IsSome(sph_obj)
        /\ Len(Unwrap(sph_obj).index_data) = 6 * gen.u * gen.v
        /\ IndicesInRange(Unwrap(sph_obj))

\* C1 witness: create_sphere(10, 3, 2) has returned 36 indices.
C1_Witness ==
    /\ SphereDone /\ gen.u = 3 /\ gen.v = 2
    /\ Len(Unwrap(sph_obj).index_data) = 36

\* ---- C3
\* the slot get_index reads for the n-th corner (n in 1..4) of cell (i, j)
SlotOfCorner(g, i, j, n) ==
    LET c == CellCorners(i, j)[n] IN Slot(g, c[1], c[2])
\* the number of cells whose six indices are already in index_data
CellsEmitted == Len(gen.index_data) \div 6
C3_State ==
    SphereRunning =>
        \* no corner has two vertices
        /\ \A m, n \in 1..Len(gen.vertex_data) :
              gen.vertex_data[m] = gen.vertex_data[n] => m = n
        \* a recorded index is the place of the vertex made for that corner
        /\ \A j \in 0..gen.u, i \in 0..gen.v :
              IsSome(Slot(gen, i, j)) =>
                 /\ Unwrap(Slot(gen, i, j)) + 1 \in 1..Len(gen.vertex_data)
                 /\ gen.vertex_data[Unwrap(Slot(gen, i, j)) + 1] = CornerVertex(gen, i, j)
        \* every emitted cell used, for each corner, the index recorded for it
        /\ \A k \in 0..(CellsEmitted - 1) :
              LET i == k \div gen.u
                  j == k % gen.u
                  slot(n) == SlotOfCorner(gen, i, j, n)
              IN  /\ \A n \in 1..4 : IsSome(slot(n))
                  /\ SubSeq(gen.index_data, 6 * k + 1, 6 * k + 6) =
                        CellIndices(<<Unwrap(slot(1)), Unwrap(slot(2)),
                                      Unwrap(slot(3)), Unwrap(slot(4))>>)
\* one get_index call: sph_p grows by the returned index
C3_Step ==
    (sph_pc = "loop" /\ Len(sph_p') = Len(sph_p) + 1) =>
        LET c == CellCorners(sph_i, sph_j)[Len(sph_p) + 1]
            before == Slot(gen, c[1], c[2])
            returned == sph_p'[Len(sph_p')]
        IN  IF IsSome(before)
            THEN /\ returned = Unwrap(before)
                 /\ gen'.vertex_data = gen.vertex_data
                 /\ gen'.enqueued = gen.enqueued
            ELSE /\ Len(gen'.vertex_data) = Len(gen.vertex_data) + 1
                 /\ Slot(gen', c[1], c[2]) = Some(returned)

\* C3: during build_sphere a grid corner becomes a vertex at most once: the
\* first request appends one vertex and records its index, every later request
\* returns the recorded index and appends nothing, so all cells sharing a corner
\* emit the same index for it.
C3_CornerMemoized == []C3_State /\ [][C3_Step]_vars

\* C3 witness: on a 2 x 2 sphere the interior corner (1, 1) has been requested
\* by all four cells and each of them emitted its one index.
C3_Witness ==
    /\ SphereDone /\ gen.u = 2 /\ gen.v = 2
    /\ IsSome(Slot(gen, 1, 1))
    /\ \A k \in 0..3 :
          Unwrap(Slot(gen, 1, 1)) \in Range(SubSeq(gen.index_data, 6 * k + 1, 6 * k + 6))
    /\ Len(gen.vertex_data) = 9

Positions(obj) == [n \in 1..Len(obj.vertex_data) |-> obj.vertex_data[n].position]
\* C5: for every height h and width w, create_square(h, w) returns the 4 vertices
\* (w/2, h/2, 0), (-w/2, h/2, 0), (-w/2, -h/2, 0), (w/2, -h/2, 0) in that order
\* and the index list [0,1,2,2,3,0]; for h = 26, w = 40 the X values are
\* {20, -20} and the Y values {13, -13}.  (A coordinate c is stored as 2c, so
\* "c = w/2" reads "2 * stored c = stored w".)
C5_Square ==
    shape.kind = "square" =>
        LET h == ToF(shape.args[1])
            w == ToF(shape.args[2])
            pos == Positions(shape.obj)
        IN  /\ Len(shape.obj.vertex_data) = 4
            /\ \A n \in 1..4 : Len(pos[n]) = 3 /\ pos[n][3] = 0
            /\ 2 * pos[1][1] = w      /\ 2 * pos[1][2] = h
            /\ 2 * pos[2][1] = 0 - w  /\ 2 * pos[2][2] = h
            /\ 2 * pos[3][1] = 0 - w  /\ 2 * pos[3][2] = 0 - h
            /\ 2 * pos[4][1] = w      /\ 2 * pos[4][2] = 0 - h
            /\ shape.obj.index_data = <<0, 1, 2, 2, 3, 0>>
            /\ shape.args = <<26, 40>> =>
                  /\ {pos[n][1] : n \in 1..4} = {ToF(20), ToF(0 - 20)}
                  /\ {pos[n][2] : n \in 1..4} = {ToF(13), ToF(0 - 13)}

\* C5 witness: create_square(26, 40), the call State::new makes, has returned.
C5_Witness ==
    /\ shape.kind = "square" /\ shape.args = <<26, 40>>
    /\ shape.obj.vertex_data[1].position = <<ToF(20), ToF(13), 0>>

\* ---- C6
\* face f (1 front .. 6 right): the axis of its plane and the sign of the
\* plane's coordinate, in units of half = size / 2
FaceAxis == <<3, 3, 2, 2, 1, 1>>
FaceSign == <<1, 0 - 1, 1, 0 - 1, 0 - 1, 1>>
FaceIndices(obj, f) == SubSeq(obj.index_data, 6 * (f - 1) + 1, 6 * f)
CubeShape(distinctFor) ==
    shape.kind = "cube" =>
        LET size == ToF(shape.args[1])
            obj == shape.obj
            pos == Positions(obj)
        IN  /\ Len(obj.vertex_data) = 8
            /\ \A n \in 1..8 : \A a \in 1..3 : 2 * pos[n][a] \in {size, 0 - size}
            /\ shape.args[1] \in distinctFor =>
                  \A m, n \in 1..8 : pos[m] = pos[n] => m = n
            /\ Len(obj.index_data) = 36
            /\ IndicesInRange(obj)
            /\ \A f \in 1..6 :
                  \A ix \in Range(FaceIndices(obj, f)) :
                     2 * PosOf(obj, ix)[FaceAxis[f]] = FaceSign[f] * size
            /\ shape.args[1] \in distinctFor =>
                  \A f \in 1..6 : Cardinality(Range(FaceIndices(obj, f))) = 4

\* C6 as stated: for every size, create_cube returns 8 vertices with pairwise
\* distinct positions and 36 indices, 6 faces of 2 triangles, each face's
\* triplets referring only to the 4 corners on that face's plane.
C6_CubeAnySize == CubeShape(Int)

\* C6 amended: the same for every size other than 0 (with size 0 the counts and
\* the face planes still hold, and the 8 positions coincide).
C6_Cube == CubeShape(Int \ {0})

\* C6 witness: create_cube(10), the call State::new makes, has returned with
\* its corners at +-5.
C6_Witness ==
    /\ shape.kind = "cube" /\ shape.args = <<10>>
    /\ shape.obj.vertex_data[3].position = <<ToF(5), ToF(5), ToF(5)>>
    /\ shape.obj.vertex_data[5].position = <<ToF(0 - 5), ToF(0 - 5), ToF(0 - 5)>>

\* ---- C7
Positive(args) == \A n \in 1..Len(args) : args[n] > 0
\* v points along the positive (sign = 1) or negative (sign = -1) direction of axis
PointsAlong(v, axis, sign) ==
    /\ sign * v[axis] > 0
    /\ \A a \in 1..3 : a # axis => v[a] = 0
\* C7: every triangle is wound counter-clockwise seen from its front: for every
\* positive size the triplets (a, b, c) of create_square and create_floor have
\* (b - a) x (c - a) along +Z, and those of create_cube have it along the
\* outward normal of the face they belong to.
C7_Winding ==
    /\ (shape.kind \in {"square", "floor"} /\ Positive(shape.args)) =>
          /\ Len(shape.obj.index_data) = 6
          /\ \A t \in 0..1 : PointsAlong(TriangleNormal(shape.obj, t), 3, 1)
    /\ (shape.kind = "cube" /\ Positive(shape.args)) =>
          /\ Len(shape.obj.index_data) = 36
          /\ \A t \in 0..11 :
                PointsAlong(TriangleNormal(shape.obj, t),
                            FaceAxis[t \div 2 + 1], FaceSign[t \div 2 + 1])

\* C7 witness: a cube of positive size whose back face (triplet 2) has its
\* normal along -Z.
C7_Witness ==
    /\ shape.kind = "cube" /\ shape.args[1] > 0
    /\ TriangleNormal(shape.obj, 2)[3] < 0

\* ---- the running program
ProgramRunning == control_flow \in {"Poll", "Exit", "Panicked"}
\* the render groups of the State as they are in this state
NowGroups == Groups(state, overflow_checks)
GroupIds(kind) == {id \in Range(state.render_groups) : NowGroups[id].kind = kind}
\* the draw commands of the last frame recorded by group id, in order
IsDraw(c) == c.op \in {"draw", "draw_indexed"}
DrawsBy(id) == SelectSeq(frame.commands, LAMBDA c : IsDraw(c) /\ c.by = id)
\* the number of seconds after which the animated sphere has count subdivisions
LargestCount == SphereCountBase + SphereCountPeriod - 1

\* C2: in every state of the running program, at startup and after any number
\* of updates that replaced the animated sphere, every GeoObj the program holds
\* (square, floor, animated sphere, the lights' cube and sphere) has every
\* element of index_data below the length of vertex_data.
C2_ProgramIndicesInRange ==
    ProgramRunning =>
        /\ \A id \in GroupIds("geo") : IndicesInRange(NowGroups[id].obj)
        /\ \A id \in GroupIds("light") :
              \A n \in 1..Len(NowGroups[id].light_render_triplets) :
                 IndicesInRange(NowGroups[id].light_render_triplets[n])
\* updates have swapped in the sphere with the most subdivisions
C2_Witness ==
    /\ ProgramRunning
    /\ state.frame_count >= 2
    /\ state.sphere_obj = Unwrap(CreateAnimatedSphere(LargestCount, overflow_checks))
    /\ Len(state.sphere_obj.vertex_data) = (LargestCount + 1) * LargestCount
    /\ state.sphere_obj # Geometry(overflow_checks).sphere

\* C8: a frame's call of GeoRenderGroup::render records exactly one draw, an
\* indexed one over 0..len(index_data) of the geometry the group holds then
\* (the sphere of the latest update included), with base vertex 0 and the
\* instances 0..len(instance_transforms).
C8_GeoOneFullDraw ==
    frame.result = "Ok" =>
        \A id \in GroupIds("geo") :
            /\ Len(DrawsBy(id)) = 1
            /\ DrawsBy(id)[1].op = "draw_indexed"
            /\ DrawsBy(id)[1].range = <<0, Len(NowGroups[id].obj.index_data)>>
            /\ DrawsBy(id)[1].base_vertex = 0
            /\ DrawsBy(id)[1].instances =
                   <<0, Len(NowGroups[id].instances.instance_transforms)>>
\* a frame drew a sphere that an update swapped in: more indices than vertices
C8_Witness ==
    /\ frame.result = "Ok"
    /\ state.sphere_obj # Geometry(overflow_checks).sphere
    /\ Len(state.sphere_obj.index_data) > Len(state.sphere_obj.vertex_data)
    /\ DrawsBy(state.render_group_sphere)[1].range =
           <<0, Len(state.sphere_obj.index_data)>>

\* ---- C9
\* light n (from 0) of light group id was drawn in the last frame
LightDrawn(id, n) ==
    \E k \in 1..Len(DrawsBy(id)) :
        DrawsBy(id)[k].bound.index_buffer = Handle("light_index_buffer", id, n)
\* mesh m (from 0) of model group id was drawn in the last frame
MeshDrawn(id, m) ==
    \E k \in 1..Len(DrawsBy(id)) :
        DrawsBy(id)[k].bound.index_buffer = Handle("mesh_index_buffer", id, m)
LightVisible(id, n) == VecGet(NowGroups[id].light_uniforms, n).color[4] # 0
\* render was invoked once on every element of render_groups and every group
\* drew all it owns, the light group the lights that MustDraw names
EveryGroupDraws(MustDraw(_, _)) ==
    frame.result = "Ok" =>
        /\ frame.calls = state.render_groups
        /\ \A id \in GroupIds("skybox") \cup GroupIds("geo") : Len(DrawsBy(id)) = 1
        /\ \A id \in GroupIds("model") :
              /\ Len(DrawsBy(id)) = Len(NowGroups[id].model.meshes)
              /\ \A m \in 0..(Len(NowGroups[id].model.meshes) - 1) : MeshDrawn(id, m)
        /\ \A id \in GroupIds("light") :
              \A n \in 0..(Len(NowGroups[id].light_uniforms) - 1) :
                 MustDraw(id, n) => LightDrawn(id, n)
AnyLight(id, n) == TRUE

\* C9 as stated: in every frame render is invoked exactly once on each element
\* of render_groups and every group draws all its geometry, the light group
\* every light it owns.
C9_EveryLightDrawn == EveryGroupDraws(AnyLight)

\* C9, amended: in every frame render is invoked exactly once on each element
\* of render_groups and every group draws all its geometry, except that the
\* light group draws exactly the lights whose color[3] is not 0.
C9_VisibleLightsDrawn ==
    /\ EveryGroupDraws(LightVisible)
    /\ frame.result = "Ok" =>
          \A id \in GroupIds("light") :
             \A n \in 0..(Len(NowGroups[id].light_uniforms) - 1) :
                LightDrawn(id, n) => LightVisible(id, n)
\* a frame of the two-mesh model in which the first light was drawn and the
\* second, whose color[3] is 0, was not
C9_Witness ==
    /\ frame.result = "Ok"
    /\ Len(DrawsBy("girl")) = 2
    /\ LightDrawn(state.light_render_group, 0)
    /\ ~LightVisible(state.light_render_group, 1)
    /\ ~LightDrawn(state.light_render_group, 1)

\* ---- C10
\* the place of a step in the last frame's steps, 0 when it did not happen
StepAt(step) ==
    IF \E n \in 1..Len(frame.steps) : frame.steps[n] = step
    THEN CHOOSE n \in 1..Len(frame.steps) : frame.steps[n] = step
    ELSE 0
Happened(step) == StepAt(step) # 0
Before(a, b) == Happened(a) /\ StepAt(a) < StepAt(b)

\* C10: in every redraw update runs camera, then lights, then the sphere, and
\* has finished before render starts; the commands are recorded before they
\* are submitted, a present has a submit before it, and a frame whose surface
\* texture was not acquired has neither submit nor present.
C10_FrameOrder ==
    frame.result # "none" =>
        /\ \A n, m \in 1..Len(frame.steps) : frame.steps[n] = frame.steps[m] => n = m
        /\ Before("camera_controller.update_camera", "camera.update_camera")
        /\ Before("camera.update_camera", "light_render_group.update_light")
        /\ Before("light_render_group.update_light", "create_sphere")
        /\ \A n \in 1..Len(frame.steps) :
              frame.steps[n] \notin Range(UpdateSteps) => Before("create_sphere", frame.steps[n])
        /\ Happened("queue.submit") =>
              /\ Before("begin_render_pass", "render_groups")
              /\ Before("render_groups", "end_render_pass")
              /\ Before("end_render_pass", "queue.submit")
        /\ Happened("output.present") => Before("queue.submit", "output.present")
        /\ frame.result # "Ok" => ~Happened("queue.submit") /\ ~Happened("output.present")
        /\ frame.result = "Ok" => Happened("queue.submit") /\ Happened("output.present")
\* a frame that was presented, after an earlier frame
C10_Witness ==
    /\ frame.result = "Ok"
    /\ state.frame_count >= 2
    /\ Happened("output.present")
    /\ frame.commands # <<>>

\* ---- C11
RenderErrors == SurfaceResults \ {"Ok"}
\* this step handled a RedrawRequested
Redrawn == frame' # frame \/ state'.frame_count # state.frame_count

\* C11 as stated: a render error after which the loop keeps polling is a
\* lost surface, no other.
C11_OnlyLostKeepsRunning ==
    [][Redrawn /\ frame'.result \in RenderErrors /\ control_flow' = "Poll"
          => frame'.result = "Lost"]_vars

\* what the last RedrawRequested did about render's result
C11_State ==
    /\ frame.result = "Lost" =>
          /\ Before("get_current_texture", "resize")
          /\ Before("resize", "surface.configure")
    /\ frame.result \in {"Ok", "OutOfMemory", "Outdated", "Timeout"} =>
          ~Happened("resize") /\ ~Happened("surface.configure")
    /\ frame.result = "OutOfMemory" => control_flow = "Exit"
    /\ frame.result \in {"Outdated", "Timeout"} => Happened("eprintln")
C11_Step ==
    Redrawn =>
        /\ frame'.result \in {"Lost", "Outdated", "Timeout"} => control_flow' = "Poll"
        /\ frame'.result = "Lost" =>
              /\ state'.size = state.size
              /\ state'.config = [width |-> state.size[1], height |-> state.size[2]]
        /\ frame'.result = "OutOfMemory" => control_flow' = "Exit"

\* C11, amended: a lost surface is answered by State::resize(state.size), which
\* configures the surface again with the unchanged size, and the loop keeps
\* polling; OutOfMemory sets ControlFlow::Exit; Outdated and Timeout are only
\* printed, without configuring the surface, and the loop keeps polling too.
C11_RenderErrors == []C11_State /\ [][C11_Step]_vars
\* a frame met a lost surface, configured it again and the loop goes on
C11_Witness ==
    /\ frame.result = "Lost"
    /\ state.frame_count >= 2
    /\ Happened("surface.configure")
    /\ control_flow = "Poll"
    /\ state.size = <<2, 1>>

\* ---- C12
\* the subdivision count the claim gives for an elapsed time (in ticks)
ClaimedCount(total) == 3 + ((total \div TicksPerSec) % 15)
\* obj has the shape of create_sphere(10, c, c - 1): (c + 1) * c vertices, all
\* of radius 10 on the grid of c by c - 1 steps, and 6 * c * (c - 1) indices
IsSphereOfCount(obj, c) ==
    /\ Len(obj.vertex_data) = (c + 1) * c
    /\ Len(obj.index_data) = 6 * c * (c - 1)
    /\ \A n \in 1..Len(obj.vertex_data) :
          /\ obj.vertex_data[n].r = ToF(10)
          /\ obj.vertex_data[n].phi[2] = c
          /\ obj.vertex_data[n].theta[2] = c - 1
\* a render group without its geometry
Rest(grp) == [instances |-> grp.instances, kind |-> grp.kind]
C12_Step ==
    Redrawn /\ ~state'.panicked =>
        /\ state'.total_duration = state.total_duration + frame'.dt
        /\ ClaimedCount(state'.total_duration) \in 3..17
        /\ IsSphereOfCount(state'.sphere_obj, ClaimedCount(state'.total_duration))
        /\ ClaimedCount(state.total_duration) = 17
              /\ ClaimedCount(state'.total_duration) # 17
              /\ frame'.dt <= TicksPerSec
              => ClaimedCount(state'.total_duration) = 3
        /\ state' = [state EXCEPT !.total_duration = state'.total_duration,
                                  !.sphere_obj = state'.sphere_obj,
                                  !.frame_count = state'.frame_count]
        /\ Rest(Groups(state', overflow_checks)[state.render_group_sphere])
              = Rest(Groups(state, overflow_checks)[state.render_group_sphere])
C12_State ==
    frame.result = "Ok" =>
        /\ DrawsBy(state.render_group_sphere)[1].bound.pipeline
              = Handle("render_pipeline", state.render_group_sphere, 0)
        /\ VecGet(DrawsBy(state.render_group_sphere)[1].bound.bind_groups, 2)
              = Handle("texture_bind_group", state.render_group_sphere, 0)
        /\ VecGet(DrawsBy(state.render_group_sphere)[1].bound.vertex_buffers, 1)
              = Handle("instance_buffer", state.render_group_sphere, 0)

\* C12: every update adds exactly dt to total_duration and leaves the sphere
\* group holding create_sphere(10, c, c - 1) for c = 3 + (whole seconds mod 15),
\* which stays in 3..17 and follows 17 by 3; nothing else of the State is
\* written but the frame counter, and the sphere group's instances, texture bind
\* group and pipeline are what they were.
C12_AnimatedSphere == []C12_State /\ [][C12_Step]_vars
\* the count has gone round: 15 seconds or more have passed and the sphere is
\* the one of count 3 or more again, after a frame that added time
C12_Witness ==
    /\ state.total_duration >= 15 * TicksPerSec
    /\ frame.dt > 0
    /\ frame.result = "Ok"
    /\ IsSphereOfCount(state.sphere_obj, ClaimedCount(state.total_duration))
    /\ ClaimedCount(state.total_duration) = 3

\* ---- C13
SceneLightGroup == SceneGroups(scene.lights).light
SceneShadowPass == ShadowPassNew(SceneLightGroup)
ShadowReturned == passes.pc = "returned"
\* the commands render_pass itself recorded in a pass
OwnCommands(pass) == SelectSeq(pass.commands, LAMBDA c : c.by = "shadow")
\* C13: ShadowPass has one depth layer and one target view per light of the
\* light group, view i addressing layer i only; render_pass records one pass per
\* light, in light order, and pass i has no color attachment, clears and writes
\* target view i, sets the shadow pipeline and light i's own bind group at slot 0
\* and calls render with the shadow flag set on every render group; it never
\* indexes outside the target views.
C13_OnePassPerLight ==
    /\ passes.pc # "panicked"
    /\ ShadowReturned =>
        /\ SceneShadowPass.shadow_texture.depth_or_array_layers
               = Len(SceneLightGroup.light_uniforms)
        /\ Len(SceneShadowPass.shadow_target_views) = Len(SceneLightGroup.light_uniforms)
        /\ \A i \in 0..(scene.lights - 1) :
              /\ VecGet(SceneShadowPass.shadow_target_views, i).base_array_layer = i
              /\ VecGet(SceneShadowPass.shadow_target_views, i).array_layer_count = 1
        /\ Len(passes.list) = Len(SceneLightGroup.light_uniforms)
        /\ \A i \in 0..(Len(passes.list) - 1) :
              LET p == VecGet(passes.list, i)
                  own == OwnCommands(p.pass)
              IN  /\ p.desc.color_attachments = <<>>
                  /\ p.desc.depth_stencil_attachment.view.base_array_layer = i
                  /\ p.desc.depth_stencil_attachment.view.array_layer_count = 1
                  /\ p.desc.depth_stencil_attachment.load = <<"Clear", ShadowClearDepth>>
                  /\ p.desc.depth_stencil_attachment.store
                  /\ Len(own) = 2
                  /\ own[1].op = "set_pipeline" /\ own[1].arg = SceneShadowPass.pipeline
                  /\ own[2].op = "set_bind_group" /\ own[2].slot = 0
                  /\ own[2].arg = Handle("bind_group_per_light", "light", i)
                  /\ p.pass.commands[1] = own[1] /\ p.pass.commands[2] = own[2]
                  /\ p.pass.calls = scene.refs
                  /\ \A k \in 1..Len(p.pass.flags) : p.pass.flags[k]
                  /\ Len(p.pass.flags) = Len(scene.refs)
C13_Witness ==
    /\ ShadowReturned
    /\ scene.lights = 2
    /\ scene.refs = StartRenderGroups
    /\ Len(passes.list) = 2
    /\ VecGet(passes.list, 1).desc.depth_stencil_attachment.view.base_array_layer = 1

\* ---- C19
KindOf(id) == SceneGroups(scene.lights)[id].kind
\* C19: in a shadow pass the light group and the skybox record no command at
\* all, so at every draw of the pass, also of the groups called after them, the
\* pipeline is the shadow pipeline and slot 0 holds the bind group of the light
\* the pass is for.
C19_ShadowStateKept ==
    ShadowReturned =>
        \A i \in 0..(Len(passes.list) - 1) :
            LET cmds == VecGet(passes.list, i).pass.commands
            IN  \A k \in 1..Len(cmds) :
                    /\ cmds[k].by # "shadow" => KindOf(cmds[k].by) \notin {"light", "skybox"}
                    /\ IsDraw(cmds[k]) =>
                          /\ cmds[k].bound.pipeline = SceneShadowPass.pipeline
                          /\ VecGet(cmds[k].bound.bind_groups, 0)
                                = Handle("bind_group_per_light", "light", i)
C19_Witness ==
    /\ ShadowReturned
    /\ scene.refs = <<"light", "square">>
    /\ scene.lights = 2
    /\ \E k \in 1..Len(VecGet(passes.list, 1).pass.commands) :
          /\ IsDraw(VecGet(passes.list, 1).pass.commands[k])
          /\ VecGet(passes.list, 1).pass.commands[k].by = "square"

\* ---- C18
\* At a draw, what is bound agrees with the pipeline in use: vertex-buffer slot
\* k holds a buffer of the layout the pipeline declares at position k, and
\* bind-group index k a bind group of the k-th layout of the pipeline layout.
SlotsAgree(c, grps) ==
    LET layout == PipelineLayout(c.bound.pipeline, grps)
    IN  /\ c.bound.pipeline # NoHandle
        /\ \A k \in 0..(Len(layout.buffers) - 1) :
              BufferLayout(VecGet(c.bound.vertex_buffers, k)) = VecGet(layout.buffers, k)
        /\ \A k \in 0..(Len(layout.bind_group_layouts) - 1) :
              BindGroupLayout(VecGet(c.bound.bind_groups, k))
                = VecGet(layout.bind_group_layouts, k)
AllSlotsAgree(cmds, grps) ==
    \A k \in 1..Len(cmds) : IsDraw(cmds[k]) => SlotsAgree(cmds[k], grps)
\* (the color pass of a frame: every draw agrees with its pipeline)
ColorSlotsAgree == ProgramRunning => AllSlotsAgree(frame.commands, NowGroups)
\* C18: at every draw of a shadow pass, too, the vertex buffers and bind groups
\* bound agree with the pipeline in use (the shadow pipeline), for the Geo
\* groups (vertex at 0, instances at 1) as for the Model groups (instances at 0,
\* vertex at 1).
C18_ShadowSlotsAgree ==
    ShadowReturned =>
        \A i \in 0..(Len(passes.list) - 1) :
            AllSlotsAgree(VecGet(passes.list, i).pass.commands, SceneGroups(scene.lights))
\* The draws of the Model groups do agree with the shadow pipeline.
ShadowModelSlotsAgree ==
    ShadowReturned =>
        \A i \in 0..(Len(passes.list) - 1) :
            LET cmds == VecGet(passes.list, i).pass.commands
            IN  \A k \in 1..Len(cmds) :
                    IsDraw(cmds[k]) /\ KindOf(cmds[k].by) = "model"
                        => SlotsAgree(cmds[k], SceneGroups(scene.lights))
C18_Witness ==
    /\ ShadowReturned
    /\ scene.refs = <<"girl", "square">>
    /\ Len(VecGet(passes.list, 0).pass.commands) > 2

\* ---- C17
CameraBindGroup == Handle("camera_bind_group", "", 0)
AllLightsBindGroup == Handle("light_bind_group", state.light_render_group, 0)
\* the draws of the Geo and Model groups in the frame
IsSceneDraw(c) == IsDraw(c) /\ NowGroups[c.by].kind \in {"geo", "model"}
PositionOf(id) == CHOOSE n \in 1..Len(state.render_groups) : state.render_groups[n] = id
\* The last group before id that writes slot 1 (the light group, the skybox) is
\* the light group.
LightGroupLeads(id) ==
    \E a \in 1..(PositionOf(id) - 1) :
        /\ NowGroups[state.render_groups[a]].kind = "light"
        /\ \A b \in (a + 1)..(PositionOf(id) - 1) :
              NowGroups[state.render_groups[b]].kind # "skybox"
\* C17 as claimed: in whatever order the render groups are registered, every
\* Geo and Model group draws with the camera bind group at slot 0 and the
\* all-lights bind group at slot 1.
C17_AnyOrder ==
    frame.result = "Ok" =>
        \A k \in 1..Len(frame.commands) :
            IsSceneDraw(frame.commands[k]) =>
                /\ VecGet(frame.commands[k].bound.bind_groups, 0) = CameraBindGroup
                /\ VecGet(frame.commands[k].bound.bind_groups, 1) = AllLightsBindGroup
\* C17: in whatever order the render groups are registered, every Geo and Model
\* group draws with the camera bind group at slot 0; it finds the all-lights
\* bind group at slot 1 exactly when the light group renders before it with no
\* skybox in between, which is so for every such group in the order State::new
\* registers.
C17_LightGroupFirst ==
    frame.result = "Ok" =>
        /\ \A k \in 1..Len(frame.commands) :
              IsSceneDraw(frame.commands[k]) =>
                /\ VecGet(frame.commands[k].bound.bind_groups, 0) = CameraBindGroup
                /\ VecGet(frame.commands[k].bound.bind_groups, 1) = AllLightsBindGroup
                      <=> LightGroupLeads(frame.commands[k].by)
        /\ state.render_groups = StartRenderGroups =>
              \A n \in 1..Len(state.render_groups) :
                  NowGroups[state.render_groups[n]].kind \in {"geo", "model"}
                      => LightGroupLeads(state.render_groups[n])
C17_Witness ==
    /\ frame.result = "Ok"
    /\ state.render_groups
          = <<"light", "square", "skybox", "floor", "girl", "sword", "sphere">>
    /\ \E k \in 1..Len(frame.commands) :
          /\ IsSceneDraw(frame.commands[k])
          /\ frame.commands[k].by = "floor"
          /\ VecGet(frame.commands[k].bound.bind_groups, 1) = Handle("bind_group", "skybox", 0)

\* ---- C16
\* one part in RelTolerance, and a position unit for rounding
RelTolerance == 500
Dot3(a, b) == a[1] * b[1] + a[2] * b[2] + a[3] * b[3]
\* the distance of pos from the origin is radius (fixed point), within tolerance
AtDistance(pos, radius) ==
    LET want == (radius * PosScale) \div ToF(1)
        tol == want \div RelTolerance + 2
    IN  /\ (want - tol) * (want - tol) <= Dot3(pos, pos)
        /\ Dot3(pos, pos) <= (want + tol) * (want + tol)
\* C16: every vertex create_sphere(radius, u, v) has made lies at distance
\* radius from the origin, within the tolerance of the arithmetic; the poles and
\* the seam vertices are among them.
C16_OnTheSphere ==
    SphereRunning =>
        \A n \in 1..Len(gen.vertex_data) :
            AtDistance(SpherePosition(gen.vertex_data[n]), gen.radius)
C16_Witness ==
    /\ SphereDone
    /\ gen.radius = ToF(SphereRadius)
    /\ gen.u = 3 /\ gen.v = 2
    /\ \E n \in 1..Len(gen.vertex_data) :
          SpherePosition(gen.vertex_data[n]) = <<0, 0 - 10 * PosScale, 0>>
    /\ \E n \in 1..Len(gen.vertex_data) :
          /\ gen.vertex_data[n].phi = <<6, 3>>
          /\ gen.vertex_data[n].theta = <<1, 2>>

\* ---- C15
\* Hamilton product of two quaternions
QuaternionMul(p, q) ==
    Quaternion(p.s * q.s - Dot3(p.v, q.v),
               <<p.s * q.v[1] + q.s * p.v[1] + Cross3(p.v, q.v)[1],
                 p.s * q.v[2] + q.s * p.v[2] + Cross3(p.v, q.v)[2],
                 p.s * q.v[3] + q.s * p.v[3] + Cross3(p.v, q.v)[3]>>)
Conjugate(q) == Quaternion(q.s, <<0 - q.v[1], 0 - q.v[2], 0 - q.v[3]>>)
\* the point p turned by q, times Norm2(q): q p q*
Rotated(q, p) == QuaternionMul(QuaternionMul(q, Quaternion(0, p)), Conjugate(q)).v
TestPoints == {<<0, 0, 0>>, <<1, 0, 0>>, <<0, 1, 0>>, <<0, 0, 1>>, <<1, 2, 3>>}
\* C15: the model matrix to_raw yields is translation(position) *
\* rotation_matrix(rotation): it takes every point to the point turned by the
\* rotation first and moved by position after.
C15_RotateThenTranslate ==
    IsSome(instance) =>
        LET t == Unwrap(instance).transform
            m == Unwrap(instance).raw.model
        IN  \A p \in TestPoints :
                /\ m.den = Norm2(t.rotation)
                /\ Matrix4MulVector(m, <<p[1], p[2], p[3], 1>>)
                      = <<Rotated(t.rotation, p)[1] + m.den * t.position[1],
                          Rotated(t.rotation, p)[2] + m.den * t.position[2],
                          Rotated(t.rotation, p)[3] + m.den * t.position[3],
                          m.den>>
C15_Witness ==
    /\ IsSome(instance)
    /\ Unwrap(instance).transform.rotation = Quaternion(1, <<0 - 1, 0, 0>>)
    /\ Unwrap(instance).transform.position = <<0, ToF(FloorHeight), 0>>
    /\ Matrix4MulVector(Unwrap(instance).raw.model, <<0, 1, 0, 1>>)
          = <<0, 2 * ToF(FloorHeight), 0 - 2, 2>>

\* ---- C14
Light(n) == VecGet(light_group.light_uniforms, n)
LightCount == Len(light_group.light_uniforms)
\* the fields of a uniform but position, direction and view_proj
Kept(uniform) ==
    <<uniform.color, uniform.diffuse_strength, uniform.ambient_strength,
      uniform.specular_strength, uniform.point_clq, uniform.cutoff_inner_outer_eps>>
\* C14: update_light moves two lights and no other.  Light 0: the position is
\* turned about the world Y axis by -100 degrees per second of dt, and the
\* direction is the new position.  Light 1: the position is the camera position
\* plus 10 times the camera facing, the direction the facing negated.  Lights 2
\* and up keep position and direction, and every light keeps color, strengths,
\* attenuation and cutoff.
C14_Step ==
    light_group' # light_group \/ light_call' # light_call =>
        /\ LightCount' = LightCount
        /\ \A n \in 0..(LightCount - 1) :
              /\ Kept(Light(n)') = Kept(Light(n))
              /\ n = 0 =>
                    /\ Light(0)'.position.v = Light(0).position.v
                    /\ Light(0)'.position.turn
                          = (Light(0).position.turn - 100 * light_call'.dt) % FullTurn
                    /\ Light(0)'.direction = Light(0)'.position
              /\ n = 1 =>
                    /\ Light(1)'.position.turn = 0 /\ Light(1)'.direction.turn = 0
                    /\ \A k \in 1..3 :
                          /\ Light(1)'.position.v[k]
                                = light_call'.camera.position[k] + 10 * light_call'.camera.dir[k]
                          /\ Light(1)'.direction.v[k] = 0 - light_call'.camera.dir[k]
              /\ n >= 2 =>
                    /\ Light(n)'.position = Light(n).position
                    /\ Light(n)'.direction = Light(n).direction
C14_TwoLightsMove == [][C14_Step]_vars
C14_Witness ==
    /\ LightCount = 3
    /\ light_call.dt = TicksPerSec
    /\ Light(0).position = Turned(<<ToF(40), ToF(20), ToF(0 - 40)>>, FullTurn - 300 * TicksPerSec)
    /\ Light(1).position = Turned(<<0, ToF(5), 0>>, 0)
    /\ Light(1).direction = Turned(<<0, 0, ToF(1)>>, 0)
    /\ Light(2).position = Turned(<<ToF(40), ToF(20), ToF(0 - 40)>>, 0)

\* ---- C20
\* C20: after every update_light the view_proj of every light is the one
\* computed from the position and the direction the uniform then holds.
C20_ViewProjUpToDate ==
    light_call # NoLightCall =>
        \A n \in 0..(LightCount - 1) :
            /\ Light(n).view_proj.eye = Light(n).position
            /\ Light(n).view_proj.dir = Light(n).direction
\* (what holds instead: the view_proj of a light that moved is that of the
\* position and direction it had before the call)
C20_Witness ==
    /\ light_call.dt = TicksPerSec
    /\ LightCount >= 2
    /\ Light(0).position.turn # 0
    /\ Light(0).view_proj.eye # Light(0).position
    /\ Light(1).view_proj.eye # Light(1).position

\* ---- C21
\* the index the lookup grid holds for the corner at latitude step i, longitude
\* step j
CornerIndex(i, j) == Unwrap(Slot(gen, i, j))
\* the cells build_sphere has finished: all of them once the loops are over
CellsDone == IF sph_i >= gen.v \/ gen.u = 0 THEN gen.u * gen.v
             ELSE sph_i * gen.u + sph_j
\* C21: build_sphere visits the cells latitude by latitude (i in 0..v, inside
\* it j in 0..u), and the k-th cell visited, cell (k div u, k mod u), has
\* written [p0, p1, p3, p3, p1, p2] at index positions 6k..6k+5, p0..p3 being
\* the indices of the corners (i, j), (i+1, j), (i+1, j+1), (i, j+1).
C21_CellOrder ==
    SphereRunning =>
        /\ Len(gen.index_data) = 6 * CellsDone
        /\ \A k \in 0..(CellsDone - 1) :
              LET i == k \div gen.u
                  j == k % gen.u
              IN  /\ i < gen.v
                  /\ SubSeq(gen.index_data, 6 * k + 1, 6 * k + 6)
                        = <<CornerIndex(i, j), CornerIndex(i + 1, j), CornerIndex(i, j + 1),
                            CornerIndex(i, j + 1), CornerIndex(i + 1, j),
                            CornerIndex(i + 1, j + 1)>>
C21_Witness ==
    /\ sph_pc = "loop"
    /\ gen.u = 3 /\ gen.v = 2
    /\ sph_i = 1 /\ sph_j = 1
    /\ SubSeq(gen.index_data, 19, 24) = <<1, 8, 2, 2, 8, 9>>

\* ---- C22
\* the square create_square makes for the arguments the floor was made with
SquareOfFloor == CreateSquare(ToF(shape.args[1]), ToF(shape.args[2]))
\* C22: for every height and width create_floor(h, w) has the vertex
\* positions, the normals and the index list of create_square(h, w), and each of
\* its texture coordinates is the square's multiplied by the tiling multiplier.
C22_FloorIsTiledSquare ==
    shape.kind = "floor" =>
        /\ shape.obj.index_data = SquareOfFloor.index_data
        /\ Len(shape.obj.vertex_data) = Len(SquareOfFloor.vertex_data)
        /\ \A n \in 1..Len(shape.obj.vertex_data) :
              /\ shape.obj.vertex_data[n].position = SquareOfFloor.vertex_data[n].position
              /\ shape.obj.vertex_data[n].normal = SquareOfFloor.vertex_data[n].normal
              /\ \A k \in 1..2 :
                    shape.obj.vertex_data[n].tex_coords[k]
                      = 100 * SquareOfFloor.vertex_data[n].tex_coords[k]
C22_Witness ==
    /\ shape.kind = "floor"
    /\ shape.args = <<FloorSide, FloorSide>>
    /\ shape.obj.vertex_data[1].tex_coords = <<ToF(100), ToF(100)>>
    /\ shape.obj.vertex_data[1].position = <<ToF(1400), ToF(1400), 0>>

\* ---- C23
ColorCommands == VecGet(passes.list, 0).pass.commands
ColorGroups == LitGroups(scene.alphas, scene.girl, scene.sword)
\* the last command a render group recorded in the color pass
LastCommandBy(id) ==
    ColorCommands[CHOOSE k \in 1..Len(ColorCommands) :
                     /\ ColorCommands[k].by = id
                     /\ \A m \in (k + 1)..Len(ColorCommands) : ColorCommands[m].by # id]
\* the lights that are drawn
VisibleLights == {k \in 1..Len(scene.alphas) : scene.alphas[k] # 0}
\* C23: with the render groups in the order registered at startup, in the
\* color pass every draw of a Geo or Model group finds the camera bind group at
\* slot 0 and the all-lights bind group at slot 1; LightRenderGroup::render
\* ends by binding the all-lights bind group at slot 1, whatever number of
\* lights it drew or passed over.
C23_LightsBoundForScene ==
    passes.pc = "returned" =>
        /\ \A k \in 1..Len(ColorCommands) :
              IsDraw(ColorCommands[k]) /\ ColorGroups[ColorCommands[k].by].kind \in {"geo", "model"}
                => /\ VecGet(ColorCommands[k].bound.bind_groups, 0)
                        = Handle("camera_bind_group", "", 0)
                   /\ VecGet(ColorCommands[k].bound.bind_groups, 1)
                        = Handle("light_bind_group", "light", 0)
        /\ LastCommandBy("light").op = "set_bind_group"
        /\ LastCommandBy("light").slot = 1
        /\ LastCommandBy("light").arg = Handle("light_bind_group", "light", 0)
        /\ Cardinality({k \in 1..Len(ColorCommands) :
                           IsDraw(ColorCommands[k]) /\ ColorCommands[k].by = "light"})
              = Cardinality(VisibleLights)
C23_Witness ==
    /\ passes.pc = "returned"
    /\ scene.alphas = <<0, ToF(1), ToF(1)>>
    /\ \E k \in 1..Len(ColorCommands) :
          /\ IsDraw(ColorCommands[k]) /\ ColorCommands[k].by = "sphere"
          /\ VecGet(ColorCommands[k].bound.bind_groups, 1)
                = Handle("light_bind_group", "light", 0)


\* ---- C24
\* C24: the u16 index counter neither overflows nor hands an index to two slots
\* while the grid has at most 65535 slots; with more slots the counter has
\* overflowed by the time every slot was asked for (a panic in a build that
\* checks overflow, a wrap otherwise), and from 65537 slots on a wrapping
\* build hands out an index a second time. Every sphere the program asks for
\* has at most 65535 slots.
CounterSlots == (counter.u + 1) * (counter.v + 1)
WithinU16 == CounterSlots <= U16Modulus - 1
CounterFinished == counter.pushed = SlotsRequested(counter.u, counter.v)
C24_CounterWithinU16 ==
    counter.pc # "idle" =>
        /\ WithinU16 =>
              /\ ~counter.panicked
              /\ ~counter.aliased
              /\ counter.index = counter.pushed
              /\ counter.given = <<0, counter.pushed - 1>>
        /\ (~WithinU16 /\ (CounterFinished \/ counter.panicked)) =>
              /\ counter.panicked \/ counter.index < counter.pushed
              /\ overflow_checks => counter.panicked
              /\ (~overflow_checks /\ CounterSlots > U16Modulus) => counter.aliased
        /\ <<counter.u, counter.v>> \in ProgramSpheres => WithinU16
C24_Witness ==
    /\ counter.pc = "done"
    /\ <<counter.u, counter.v>> = <<256, 256>>
    /\ ~overflow_checks
    /\ counter.aliased
    /\ counter.index = 513
    /\ counter.pushed = U16Modulus + 513

\* ---- C25
\* the slots <<u, v>> of the lookup grid that hold an index
FilledSlots == {s \in (0..gen.u) \X (0..gen.v) : IsSome(Slot(gen, s[2], s[1]))}
C25_State ==
    SphereRunning =>
        /\ gen.index = Len(gen.vertex_data)
        /\ {Unwrap(Slot(gen, s[2], s[1])) : s \in FilledSlots} = 0..(gen.index - 1)
        /\ Cardinality(FilledSlots) = gen.index
        /\ \A s \in FilledSlots :
              gen.vertex_data[Unwrap(Slot(gen, s[2], s[1])) + 1] =
                  CornerVertex(gen, s[2], s[1])
\* a get_index call that finds its slot empty returns the counter and adds one
C25_Step ==
    (sph_pc = "loop" /\ Len(sph_p') = Len(sph_p) + 1) =>
        LET c == CellCorners(sph_i, sph_j)[Len(sph_p) + 1]
        IN  IF IsSome(Slot(gen, c[1], c[2]))
            THEN gen'.index = gen.index
            ELSE /\ sph_p'[Len(sph_p')] = gen.index
                 /\ Slot(gen', c[1], c[2]) = Some(gen.index)
                 /\ gen'.index = gen.index + 1

C26_LookupsInBounds ==
    /\ sph_pc # "panicked"
    /\ SphereRunning =>
          /\ Len(gen.enqueued) = gen.u + 1
          /\ \A n \in 1..Len(gen.enqueued) : Len(gen.enqueued[n]) = gen.v + 1
    /\ (sph_pc = "loop" /\ sph_i < gen.v /\ sph_j < gen.u) =>
          \A n \in 1..4 :
              \E c \in {CellCorners(sph_i, sph_j)[n]} :
                 /\ c[1] \in 0..gen.v
                 /\ c[2] \in 0..gen.u
                 /\ SlotInBounds(gen, c[1], c[2])
    /\ (SphereRunning /\ (gen.u = 0 \/ gen.v = 0)) =>
          /\ sph_p = <<>>
          /\ FilledSlots = {}
          /\ gen.vertex_data = <<>> /\ gen.index_data = <<>>
          /\ SphereDone =>
                /\ Unwrap(sph_obj).vertex_data = <<>>
                /\ Unwrap(sph_obj).index_data = <<>>

\* C26 witness: the last cell of create_sphere(_, 4, 4) has looked up the far
\* corner of the grid, slot (v 4, u 4), and is about to look up (v 3, u 4),
\* filled by the cell before.
C26_Witness ==
    /\ sph_pc = "loop" /\ gen.u = 4 /\ gen.v = 4
    /\ sph_i = 3 /\ sph_j = 3 /\ Len(sph_p) = 3
    /\ Slot(gen, 4, 4) = Some(sph_p[3])
    /\ IsSome(Slot(gen, 3, 4))

\* ---- C27
\* width and height as the record the config and the textures are kept as
Extent(size) == [width |-> size[1], height |-> size[2]]
\* what State::resize may write
Sized(st) == <<st.size, st.config, st.projection, st.tex_view, st.depth_texture>>
C27_State ==
    ProgramRunning =>
        /\ state.size[1] > 0 /\ state.size[2] > 0
        /\ state.config = Extent(state.size)
        /\ state.tex_view = state.config
        /\ state.depth_texture = state.config
        /\ \A new_size \in ResizeArgs :
              IF new_size[1] = 0 \/ new_size[2] = 0
              THEN Resize(state, new_size) = state
              ELSE Sized(Resize(state, new_size)) =
                      <<new_size, Extent(new_size), Extent(new_size), Extent(new_size),
                        Extent(new_size)>>
\* a step that writes one of them writes all of them, for one positive size
C27_Step ==
    Sized(state') # Sized(state) =>
        /\ state'.size[1] > 0 /\ state'.size[2] > 0
        /\ state'.size # state.size
        /\ Sized(state') = <<state'.size, Extent(state'.size), Extent(state'.size),
                             Extent(state'.size), Extent(state'.size)>>

\* C27: State::resize with a width or height of 0 changes nothing; with both
\* positive it sets size, config.width/height, the projection, the depth
\* texture and the multisample target together; so after any sequence of
\* resize events config.width = size.width > 0, config.height = size.height >
\* 0 and the depth texture and the multisample target have the configured
\* dimensions.
C27_ResizeKeepsSizesTogether == []C27_State /\ [][C27_Step]_vars

\* C27 witness: the window, 1 x 1 at startup, was resized to 2 x 1 and every
\* resize event since, those with a 0 among them, left it so.
C27_Witness ==
    /\ control_flow = "Poll"
    /\ state.size = <<2, 1>>
    /\ state.depth_texture = [width |-> 2, height |-> 1]
    /\ Resize(state, <<0, 1>>) = state

\* ---- C28
C28_State ==
    /\ event.event.kind = "MouseMotion" =>
          (event.handled = "process_mouse" <=> event.pressed)
    /\ event.handled = "process_mouse" => event.event.kind = "MouseMotion"
    /\ event.input => event.handled \notin {"close", "resize", "escape"}
    /\ event.handled = "close" => ~event.input /\ control_flow = "Exit"
C28_Step ==
    /\ (~state.mouse_pressed /\ state'.mouse_pressed) =>
          /\ event'.event = Event("MouseInput", "", "Pressed", "Left", <<0, 0>>)
          /\ event'.input
    /\ (state.mouse_pressed /\ ~state'.mouse_pressed) =>
          /\ event'.event = Event("KeyboardInput", "Escape", "Pressed", "", <<0, 0>>)
          /\ ~event'.input
          /\ event'.handled = "escape"
    /\ (event'.event.kind = "MouseInput" /\ event'.event.state = "Released") =>
          state'.mouse_pressed = state.mouse_pressed
    /\ event'.event = Event("MouseInput", "", "Pressed", "Left", <<0, 0>>) =>
          state'.mouse_pressed
    /\ (event'.event = Event("KeyboardInput", "Escape", "Pressed", "", <<0, 0>>)
           /\ ~event'.input) => ~state'.mouse_pressed
    /\ event'.input => Sized(state') = Sized(state) /\ control_flow' = control_flow

\* C28: mouse_pressed starts false, becomes true only on a left-mouse-button
\* press and false again only on an Escape press that process_keyboard did not
\* consume (a button release leaves it); mouse motion is forwarded to the
\* camera controller exactly when mouse_pressed is true; an event for which
\* State::input returns true is not handled as close, resize or Escape.
C28_MousePressed ==
    /\ ~state.mouse_pressed
    /\ []C28_State
    /\ [][C28_Step]_vars

\* C28 witness: with the mouse pressed the camera controller consumed an
\* Escape press, which left mouse_pressed set.
C28_Witness ==
    /\ state.mouse_pressed
    /\ event.event = Event("KeyboardInput", "Escape", "Pressed", "", <<0, 0>>)
    /\ event.input
    /\ event.pressed
    /\ event.handled = "none"

\* ---- C29
\* the commands ModelRenderGroup::render recorded
ModelCommands == passes.list[1].pass.commands
ModelDraws == SelectSeq(ModelCommands, LAMBDA c : IsDraw(c))
\* the meshes of the model whose material index is outside materials
BadMeshes == {m \in 1..Len(scene.model.meshes) :
                 ~(scene.model.meshes[m].material < scene.model.materials)}
\* the commands of mesh number m (from 1) are the five of draw_mesh_instanced
MeshRecorded(m) ==
    LET mesh == scene.model.meshes[m]
        at == 2 + 5 * (m - 1)
        c(n) == ModelCommands[at + n]
    IN  /\ c(1).op = "set_vertex_buffer" /\ c(1).slot = 1
        /\ c(1).arg = Handle("mesh_vertex_buffer", "model", m - 1)
        /\ c(2).op = "set_index_buffer"
        /\ c(2).arg = Handle("mesh_index_buffer", "model", m - 1)
        /\ c(3).op = "set_bind_group" /\ c(3).slot = 2
        /\ c(3).arg = Handle("material_bind_group", "model", mesh.material)
        /\ c(4).op = "set_bind_group" /\ c(4).slot = 3
        /\ c(4).arg = Handle("material_uniform_bind_group", "model", mesh.material)
        /\ c(5).op = "draw_indexed"
        /\ c(5).range = <<0, mesh.num_elements>>
        /\ c(5).base_vertex = 0
        /\ c(5).instances = <<0, scene.instances>>
        /\ c(5).bound.bind_groups[3] = c(3).arg
        /\ c(5).bound.bind_groups[4] = c(4).arg
        /\ c(5).bound.vertex_buffers[1] = Handle("instance_buffer", "model", 0)
\* C29: ModelRenderGroup::render sets its pipeline and the instance buffer
\* once, then records one indexed draw per mesh, in mesh order, over indices
\* 0..num_elements and instances 0..len(instance_transforms), with the texture
\* and uniform bind groups of materials[mesh.material] at slots 2 and 3; a mesh
\* whose material index is not below the number of materials aborts the call
\* without a draw for it, and a model without materials aborts construction.
C29_OneDrawPerMesh ==
    /\ (scene.model.materials = 0 /\ passes.pc # "idle") =>
          passes.pc = "panicked" /\ passes.list = <<>>
    /\ IsSome(scene.group) => scene.model.materials > 0
    /\ passes.list # <<>> =>
          /\ IsSome(scene.group)
          /\ ModelCommands[1].op = "set_pipeline"
          /\ ModelCommands[2].op = "set_vertex_buffer" /\ ModelCommands[2].slot = 0
          /\ ModelCommands[2].arg = Handle("instance_buffer", "model", 0)
          /\ \A n \in 3..Len(ModelCommands) :
                /\ ModelCommands[n].op # "set_pipeline"
                /\ ModelCommands[n].op = "set_vertex_buffer" => ModelCommands[n].slot = 1
          /\ IF BadMeshes = {}
             THEN /\ passes.pc = "returned"
                  /\ Len(ModelCommands) = 2 + 5 * Len(scene.model.meshes)
                  /\ Len(ModelDraws) = Len(scene.model.meshes)
                  /\ \A m \in 1..Len(scene.model.meshes) : MeshRecorded(m)
             ELSE \E bad \in BadMeshes :
                  /\ \A m \in BadMeshes : bad <= m
                  /\ passes.pc = "panicked"
                  /\ Len(ModelCommands) = 2 + 5 * (bad - 1)
                  /\ Len(ModelDraws) = bad - 1
                  /\ \A m \in 1..(bad - 1) : MeshRecorded(m)

\* C29 witness: two meshes, the second using material 1 of two, drawn for two
\* instances.
C29_Witness ==
    /\ passes.pc = "returned"
    /\ Len(scene.model.meshes) = 2
    /\ scene.model.meshes[2] = [num_elements |-> 6, material |-> 1]
    /\ scene.model.materials = 2
    /\ scene.instances = 2
    /\ Len(ModelDraws) = 2
    /\ ModelDraws[2].range = <<0, 6>>
    /\ ModelDraws[2].instances = <<0, 2>>
    /\ ModelDraws[2].bound.bind_groups[3] = Handle("material_bind_group", "model", 1)

\* ---- C30
\* the call whose result cutoff holds
CutoffCall == Unwrap(cutoff)
\* C30 as stated: cal_cutoff returns, with a positive third component,
\* whenever inner < outer.
C30_ReturnsWhenInnerBelowOuter ==
    (IsSome(cutoff) /\ CutoffCall.inner < CutoffCall.outer) =>
        /\ IsSome(CutoffCall.result)
        /\ Unwrap(CutoffCall.result)[3] > 0

\* C30, amended: for angles of 0 to 180 degrees cal_cutoff returns
\* [cos inner, cos outer, cos inner - cos outer, 1] with a positive third
\* component when the f32 cosine of inner is above that of outer, for which
\* inner < outer is needed but not enough: two angles whose cosines round to
\* the same f32 fail the assertion; it fails whenever inner >= outer; the call
\* made at startup, cal_cutoff(4, 30), passes.
C30_ReturnsWhenCosinesDiffer ==
    IsSome(cutoff) =>
        /\ IsSome(CutoffCall.result) =>
              /\ CutoffCall.inner < CutoffCall.outer
              /\ Unwrap(CutoffCall.result)[1] = CosF32(CutoffCall.inner)
              /\ Unwrap(CutoffCall.result)[2] = CosF32(CutoffCall.outer)
              /\ Unwrap(CutoffCall.result)[3] =
                    CosF32(CutoffCall.inner) - CosF32(CutoffCall.outer)
              /\ Unwrap(CutoffCall.result)[3] > 0
              /\ Unwrap(CutoffCall.result)[4] = F32One
        /\ CutoffCall.inner >= CutoffCall.outer => CutoffCall.result = None
        /\ (CutoffCall.inner < CutoffCall.outer /\ CutoffCall.result = None) =>
              CosF32(CutoffCall.inner) = CosF32(CutoffCall.outer)
        /\ (CutoffCall.inner = Deg(4) /\ CutoffCall.outer = Deg(30)) =>
              IsSome(CutoffCall.result)

\* C30 witness: cal_cutoff(4, 30) returned cos 4 = 0.99756, cos 30 = 0.86603.
C30_Witness ==
    /\ IsSome(cutoff)
    /\ CutoffCall.inner = Deg(4) /\ CutoffCall.outer = Deg(30)
    /\ IsSome(CutoffCall.result)
    /\ Unwrap(CutoffCall.result)[1] \in 16736340..16736356
    /\ Unwrap(CutoffCall.result)[2] \in 14529487..14529503
====
